---- MODULE Spec2Model ----
(***************************************************************************)
(* A model of maidsafe/brb: the deterministic Byzantine Reliable           *)
(* Broadcast engine (src/src/deterministic_brb.rs) on top of the           *)
(* generational membership engine                                          *)
(* (src/brb_membership/src/brb_membership.rs).                             *)
(*                                                                         *)
(* Every process is one actor.  Actors are the integers 1..NActors, which  *)
(* gives them the total order the code gets from the bytes of their public *)
(* keys.  A signature is modelled by what makes it verify: the key that    *)
(* made it and the value it was made over.                                 *)
(***************************************************************************)
EXTENDS Integers, FiniteSets, Sequences, TLC

\* ------------------------------------------------------------------ bounds
NActors == 4
NOps == 2
MaxOperations == 2
MaxForgedGen == 1
\* The instructions one run of the interpreter consumes.
MaxInstructions == 6
\* The most actors one process has force_joined.
MaxTrusted == 8
\* The packets delivered after concurrent proposals.
MaxDeliveries == 15

\* ------------------------------------------------------- program constants
SOFT_MAX_MEMBERS == 7

Actors == 1..NActors
Ops == 1..NOps

Range(f) == {f[x] : x \in DOMAIN f}
SetMin(S) == CHOOSE x \in S : \A y \in S : x <= y
SetMax(S) == CHOOSE x \in S : \A y \in S : x >= y
EmptyMap == [x \in {} |-> 0]
RECURSIVE SortedSeq(_)
SortedSeq(S) == IF S = {} THEN <<>> ELSE <<SetMin(S)>> \o SortedSeq(S \ {SetMin(S)})
RECURSIVE Flatten(_)
Flatten(ss) == IF ss = <<>> THEN <<>> ELSE Head(ss) \o Flatten(Tail(ss))
Ok(v) == [ok |-> TRUE, val |-> v]
\* The element of a singleton set.  A result that is used more than once is
\* bound by a quantifier over the singleton set holding it, as a `let`
\* binding of the code holds the value of one call.
Only(S) == CHOOSE x \in S : TRUE
Err(e) == [ok |-> FALSE, err |-> e]

\* ------------------------------------------------------------- signatures
\* SigningActor::sign over a Msg, and Actor::verify of it.
sign(signer, data) == [signer |-> signer, data |-> data]
verify(data, signer, sig) == sig = [signer |-> signer, data |-> data]
\* The signature of a vote is over (ballot, gen).
sign_vote(signer, ballot, gen) == sign(signer, <<ballot, gen>>)
verify_vote(vote) == verify(<<vote.ballot, vote.gen>>, vote.voter, vote.sig)

\* -------------------------------------------------------------- reconfigs
Join(a) == [kind |-> "Join", actor |-> a]
Leave(a) == [kind |-> "Leave", actor |-> a]

\* Reconfig::apply, over a whole BTreeSet<Reconfig> in its iteration order:
\* the derived order puts every Join before every Leave.
apply_reconfigs(rs, mem) ==
    (mem \cup {r.actor : r \in {x \in rs : x.kind = "Join"}})
        \ {r.actor : r \in {x \in rs : x.kind = "Leave"}}

\* The derived Ord of Reconfig: the variant first, then the actor.
ReconfigRank(r) == (IF r.kind = "Join" THEN 0 ELSE NActors + MaxTrusted + 1) + r.actor

\* The Ord of BTreeSet<Reconfig>: lexicographic over the sorted elements.
RECURSIVE RanksLess(_, _)
RanksLess(A, B) ==
    IF A = {} THEN B # {}
    ELSE IF B = {} THEN FALSE
    ELSE LET a == SetMin(A)
             b == SetMin(B)
         IN  IF a < b THEN TRUE
             ELSE IF a > b THEN FALSE
             ELSE RanksLess(A \ {a}, B \ {b})
ReconfigSetLess(R1, R2) ==
    RanksLess({ReconfigRank(r) : r \in R1}, {ReconfigRank(r) : r \in R2})

\* ------------------------------------------------------- ballots and votes
Propose(r) == [tag |-> "Propose", reconfig |-> r]
Merge(vs) == [tag |-> "Merge", votes |-> vs]
SuperMajority(vs) == [tag |-> "SuperMajority", votes |-> vs]

is_super_majority_ballot(v) == v.ballot.tag = "SuperMajority"

RECURSIVE unpack_votes(_)
unpack_votes(v) ==
    IF v.ballot.tag = "Propose" THEN {v}
    ELSE {v} \cup UNION {unpack_votes(w) : w \in v.ballot.votes}

\* Vote::reconfigs: the (voter, reconfig) pairs of the proposals inside.
RECURSIVE reconfigs(_)
reconfigs(v) ==
    IF v.ballot.tag = "Propose" THEN {<<v.voter, v.ballot.reconfig>>}
    ELSE UNION {reconfigs(w) : w \in v.ballot.votes}

\* The set of reconfigs a vote advocates (the code's
\* vote.reconfigs().into_iter().map(|(_, r)| r).collect()).
reconfig_set(v) == {pr[2] : pr \in reconfigs(v)}

RECURSIVE supersedes(_, _)
supersedes(v, w) ==
    IF v = w THEN TRUE
    ELSE IF v.ballot.tag = "Propose" THEN FALSE
    ELSE \E x \in v.ballot.votes : supersedes(x, w)

simplify_votes(votes) ==
    {v \in votes : ~ \E o \in votes : o # v /\ supersedes(o, v)}

simplify(ballot) ==
    IF ballot.tag = "Propose" THEN ballot
    ELSE [ballot EXCEPT !.votes = simplify_votes(ballot.votes)]

\* ------------------------------------------------------ membership: State
count_votes(votes) ==
    LET advocated == {<<v, reconfig_set(v)>> : v \in votes}
    IN  [rs \in {pr[2] : pr \in advocated} |->
            Cardinality({pr \in advocated : pr[2] = rs})]

\* resolve_votes returning the first of several equally maximal counts.
resolve_votes_first_maximum(votes) ==
    LET count == count_votes(votes)
        most == SetMax(Range(count))
        tied == {rs \in DOMAIN count : count[rs] = most}
    IN  IF votes = {} THEN {}
        ELSE CHOOSE rs \in tied : \A o \in tied : o = rs \/ ReconfigSetLess(rs, o)

\* max_by over the BTreeMap's entries in key order: of several equally
\* maximal counts the last, i.e. the greatest reconfig set, is returned;
\* unwrap_or_default gives the empty set when there is no vote.
resolve_votes(votes) ==
    LET count == count_votes(votes)
        most == SetMax(Range(count))
        tied == {rs \in DOMAIN count : count[rs] = most}
    IN  IF votes = {} THEN {}
        ELSE CHOOSE rs \in tied : \A o \in tied : o = rs \/ ReconfigSetLess(o, rs)

force_join(s, actor) ==
    LET cur == IF s.gen \in DOMAIN s.forced_reconfigs
               THEN s.forced_reconfigs[s.gen] ELSE {}
        new == (cur \ {Leave(actor)}) \cup {Join(actor)}
    IN  [s EXCEPT !.forced_reconfigs =
            [g \in DOMAIN s.forced_reconfigs \cup {s.gen} |->
                IF g = s.gen THEN new ELSE s.forced_reconfigs[g]]]

force_leave(s, actor) ==
    LET cur == IF s.gen \in DOMAIN s.forced_reconfigs
               THEN s.forced_reconfigs[s.gen] ELSE {}
        new == (cur \ {Join(actor)}) \cup {Leave(actor)}
    IN  [s EXCEPT !.forced_reconfigs =
            [g \in DOMAIN s.forced_reconfigs \cup {s.gen} |->
                IF g = s.gen THEN new ELSE s.forced_reconfigs[g]]]

forced_at(s, g) ==
    IF g \in DOMAIN s.forced_reconfigs THEN s.forced_reconfigs[g] ELSE {}

\* The loop of State::members over history, in generation order.
RECURSIVE members_walk(_, _, _, _)
members_walk(s, gen, mem, gens) ==
    IF gens = {} THEN Err("InvalidGeneration")
    ELSE LET g == SetMin(gens)
             vote == s.history[g]
             m1 == apply_reconfigs(forced_at(s, g), mem)
         IN  IF vote.ballot.tag # "SuperMajority"
             THEN Err("InvalidVoteInHistory")
             ELSE LET m2 == apply_reconfigs(resolve_votes(vote.ballot.votes), m1)
                  IN  IF g = gen THEN Ok(m2)
                      ELSE members_walk(s, gen, m2, gens \ {g})

members(s, gen) ==
    LET m0 == apply_reconfigs(forced_at(s, 0), {})
    IN  IF gen = 0 THEN Ok(m0)
        ELSE members_walk(s, gen, m0, DOMAIN s.history)

is_super_majority(s, votes) ==
    LET count == count_votes(votes)
        most_votes == IF votes = {} THEN 0 ELSE SetMax(Range(count))
        n == Cardinality(members(s, s.gen).val)
    IN  3 * most_votes > 2 * n

\* Variant: any vote at all counts as a super majority over super
\* majorities.
is_super_majority_over_super_majorities_any_vote(s, votes) ==
    votes # {}

is_super_majority_over_super_majorities(s, votes) ==
    LET winning_reconfigs == resolve_votes(votes)
        count_of_super_majorities ==
            Cardinality({v \in votes : /\ reconfig_set(v) = winning_reconfigs
                                       /\ is_super_majority_ballot(v)})
    IN  3 * count_of_super_majorities > 2 * Cardinality(members(s, s.gen).val)

\* The build profile: with overflow checks (debug, and `cargo test`) an
\* underflowing subtraction panics; without them (release) it wraps.
VARIABLE overflow_checks

\* Variant: a split vote is never detected.
is_split_vote_never(s, votes) == [panic |-> FALSE, val |-> FALSE]

\* State::is_split_vote.  `panic` is set when the subtraction panics.  When
\* it wraps, most_votes + outstanding_votes wraps back to the exact sum if
\* that is not negative, and is otherwise so large that three times it,
\* wrapped again, still exceeds 2 * n.
is_split_vote(s, votes) ==
    LET count == count_votes(votes)
        votes_received == Cardinality(votes)
        most_votes == IF votes = {} THEN 0 ELSE SetMax(Range(count))
        n == Cardinality(members(s, s.gen).val)
        outstanding_votes == n - votes_received
        predicted_votes == most_votes + outstanding_votes
    IN  IF outstanding_votes < 0 /\ overflow_checks
        THEN [panic |-> TRUE, val |-> FALSE]
        ELSE [panic |-> FALSE,
              val |-> /\ 3 * votes_received > 2 * n
                      /\ predicted_votes >= 0
                      /\ 3 * predicted_votes <= 2 * n]

\* Variant: the capacity is reached only above SOFT_MAX_MEMBERS.
validate_reconfig_above_capacity(s, reconfig) ==
    LET m == members(s, s.gen)
    IN  IF ~ m.ok THEN m.err
        ELSE IF reconfig.kind = "Join"
        THEN IF reconfig.actor \in m.val THEN "JoinRequestForExistingMember"
             ELSE IF Cardinality(m.val) > SOFT_MAX_MEMBERS THEN "MembersAtCapacity"
             ELSE "Ok"
        ELSE IF reconfig.actor \notin m.val THEN "LeaveRequestForNonMember"
             ELSE "Ok"

validate_reconfig(s, reconfig) ==
    LET m == members(s, s.gen)
    IN  IF ~ m.ok THEN m.err
        ELSE IF reconfig.kind = "Join"
        THEN IF reconfig.actor \in m.val THEN "JoinRequestForExistingMember"
             ELSE IF Cardinality(m.val) >= SOFT_MAX_MEMBERS THEN "MembersAtCapacity"
             ELSE "Ok"
        ELSE IF reconfig.actor \notin m.val THEN "LeaveRequestForNonMember"
             ELSE "Ok"

RECURSIVE validate_vote(_, _)
RECURSIVE validate_ballot(_, _, _)

\* The loop over the inner votes of a Merge or SuperMajority ballot: the
\* first failing vote ends it.
validate_inner_votes(s, gen, votes) ==
    Only({IF errors = {} THEN "Ok" ELSE CHOOSE e \in errors : TRUE :
          errors \in {{IF v.gen # gen THEN "VoteNotForNextGeneration"
                       ELSE validate_vote(s, v) : v \in votes} \ {"Ok"}}})

validate_ballot(s, gen, ballot) ==
    IF ballot.tag = "Propose" THEN validate_reconfig(s, ballot.reconfig)
    ELSE IF ballot.tag = "Merge" THEN validate_inner_votes(s, gen, ballot.votes)
    ELSE LET m == members(s, s.gen)
         IN  IF ~ m.ok THEN m.err
             ELSE IF ~ is_super_majority(s,
                        UNION {unpack_votes(v) : v \in ballot.votes})
             THEN "SuperMajorityBallotIsNotSuperMajority"
             ELSE validate_inner_votes(s, gen, ballot.votes)

\* Variant: the generation of the vote is not checked.
validate_vote_any_generation(s, vote) ==
    LET m == members(s, s.gen)
    IN  IF ~ m.ok THEN m.err
        ELSE IF ~ verify_vote(vote) THEN "InvalidSignature"
        ELSE IF vote.voter \notin m.val THEN "VoteFromNonMember"
        ELSE IF /\ vote.voter \in DOMAIN s.votes
                /\ ~ supersedes(vote, s.votes[vote.voter])
                /\ ~ supersedes(s.votes[vote.voter], vote)
        THEN "ExistingVoteIncompatibleWithNewVote"
        ELSE IF s.pending_gen = s.gen
        THEN validate_ballot(s, vote.gen, vote.ballot)
        ELSE LET rcs == UNION {reconfigs(v) : v \in Range(s.votes)}
                            \cup reconfigs(vote)
                 voters == {pr[1] : pr \in rcs}
             IN  IF Cardinality(voters) # Cardinality(rcs)
                 THEN "VoterChangedMind"
                 ELSE validate_ballot(s, vote.gen, vote.ballot)

\* Variant: the voter need not be a member.
validate_vote_any_voter(s, vote) ==
    LET m == members(s, s.gen)
    IN  IF ~ m.ok THEN m.err
        ELSE IF ~ verify_vote(vote) THEN "InvalidSignature"
        ELSE IF vote.gen # s.gen + 1 THEN "VoteNotForNextGeneration"
        ELSE IF /\ vote.voter \in DOMAIN s.votes
                /\ ~ supersedes(vote, s.votes[vote.voter])
                /\ ~ supersedes(s.votes[vote.voter], vote)
        THEN "ExistingVoteIncompatibleWithNewVote"
        ELSE IF s.pending_gen = s.gen
        THEN validate_ballot(s, vote.gen, vote.ballot)
        ELSE LET rcs == UNION {reconfigs(v) : v \in Range(s.votes)}
                            \cup reconfigs(vote)
                 voters == {pr[1] : pr \in rcs}
             IN  IF Cardinality(voters) # Cardinality(rcs)
                 THEN "VoterChangedMind"
                 ELSE validate_ballot(s, vote.gen, vote.ballot)

validate_vote(s, vote) ==
    LET m == members(s, s.gen)
    IN  IF ~ m.ok THEN m.err
        ELSE IF ~ verify_vote(vote) THEN "InvalidSignature"
        ELSE IF vote.gen # s.gen + 1 THEN "VoteNotForNextGeneration"
        ELSE IF vote.voter \notin m.val THEN "VoteFromNonMember"
        ELSE IF /\ vote.voter \in DOMAIN s.votes
                /\ ~ supersedes(vote, s.votes[vote.voter])
                /\ ~ supersedes(s.votes[vote.voter], vote)
        THEN "ExistingVoteIncompatibleWithNewVote"
        ELSE IF s.pending_gen = s.gen
        THEN validate_ballot(s, vote.gen, vote.ballot)
        ELSE LET rcs == UNION {reconfigs(v) : v \in Range(s.votes)}
                            \cup reconfigs(vote)
                 voters == {pr[1] : pr \in rcs}
             IN  IF Cardinality(voters) # Cardinality(rcs)
                 THEN "VoterChangedMind"
                 ELSE validate_ballot(s, vote.gen, vote.ballot)

build_vote(s, gen, ballot) ==
    [gen |-> gen, ballot |-> ballot, voter |-> s.id, sig |-> sign_vote(s.id, ballot, gen)]

\* State::log_vote.  For each voter the unpacked votes are offered in turn
\* and one replaces the held vote when it supersedes it; the votes of one
\* voter within a round form a chain under supersedes, so the vote kept is
\* the one that supersedes the others (the held vote stays otherwise).
log_vote(votes, vote) ==
    LET unpacked == unpack_votes(vote)
        voters == DOMAIN votes \cup {v.voter : v \in unpacked}
        cand(a) == {v \in unpacked : v.voter = a}
                     \cup (IF a \in DOMAIN votes THEN {votes[a]} ELSE {})
        top(a) == {v \in cand(a) : \A w \in cand(a) : supersedes(v, w)}
    IN  [a \in voters |->
            IF top(a) # {} THEN CHOOSE v \in top(a) : TRUE
            ELSE IF a \in DOMAIN votes THEN votes[a]
            ELSE CHOOSE v \in cand(a) : TRUE]

send_vote(vote, dest) == [vote |-> vote, dest |-> dest]

\* State::broadcast: one message per member, in the member set's order.
broadcast_vote(s, vote) ==
    LET dests == SortedSeq(members(s, s.gen).val)
    IN  [i \in 1..Len(dests) |-> send_vote(vote, dests[i])]

cast_vote(s, vote) ==
    [res |-> "Ok",
     st |-> [s EXCEPT !.pending_gen = vote.gen, !.votes = log_vote(s.votes, vote)],
     out |-> broadcast_vote(s, vote)]

propose(s, reconfig) ==
    LET vote == build_vote(s, s.gen + 1, Propose(reconfig))
    IN  Only({IF v # "Ok" THEN [res |-> v, st |-> s, out |-> <<>>]
              ELSE cast_vote(s, vote) :
              v \in {validate_vote(s, vote)}})

\* Variant: anti-entropy that sends nothing.
anti_entropy_votes_none(s, from_gen, actor) == <<>>

\* Variant: anti-entropy that sends the history only.
anti_entropy_votes_history_only(s, from_gen, actor) ==
    LET gens == SortedSeq({h \in DOMAIN s.history : h > from_gen})
    IN  [i \in 1..Len(gens) |-> send_vote(s.history[gens[i]], actor)]

\* State::anti_entropy: the history after from_gen, then the pending votes.
anti_entropy_votes(s, from_gen, actor) ==
    LET gens == SortedSeq({h \in DOMAIN s.history : h > from_gen})
        voters == SortedSeq(DOMAIN s.votes)
    IN  [i \in 1..Len(gens) |-> send_vote(s.history[gens[i]], actor)]
            \o [i \in 1..Len(voters) |-> send_vote(s.votes[voters[i]], actor)]

\* Variant: the decision is stored and gen moves, the votes are kept.
store_decision_keeps_votes(s, sm_vote) ==
    [s EXCEPT
        !.history = [g \in DOMAIN s.history \cup {s.pending_gen} |->
                        IF g = s.pending_gen THEN sm_vote ELSE s.history[g]],
        !.gen = s.pending_gen]

\* Variant: the vote is stored and the votes cleared, gen stays.
store_decision_keep_gen(s, sm_vote) ==
    [s EXCEPT
        !.history = [g \in DOMAIN s.history \cup {s.pending_gen} |->
                        IF g = s.pending_gen THEN sm_vote ELSE s.history[g]],
        !.votes = EmptyMap]

\* The end of the SM/SM branch of handle_vote: the decision is stored under
\* pending_gen, the pending votes are cleared and gen moves to pending_gen.
store_decision(s, sm_vote) ==
    [s EXCEPT
        !.history = [g \in DOMAIN s.history \cup {s.pending_gen} |->
                        IF g = s.pending_gen THEN sm_vote ELSE s.history[g]],
        !.votes = EmptyMap,
        !.gen = s.pending_gen]

\* Variant: on a split vote the Merge ballot is cast whether or not it adds
\* a reconfig to the process's own vote.
handle_vote_always_merges(s, vote) ==
    Only({
        IF v # "Ok" THEN [res |-> v, st |-> s, out |-> <<>>]
        ELSE Only({
            LET held == Range(s1.votes)
                we_voted == s1.id \in DOMAIN s1.votes
                merge_vote == build_vote(s1, s1.pending_gen, simplify(Merge(held)))
                sm_vote == build_vote(s1, s1.pending_gen, simplify(SuperMajority(held)))
                super_majority_reconfigs == resolve_votes(held)
                we_have_comitted_to_reconfigs_not_in_super_majority ==
                    \E r \in resolve_votes(unpack_votes(s1.votes[s1.id])) :
                        r \notin super_majority_reconfigs
            IN  Only({
                IF split.panic
                THEN [res |-> "Panic", st |-> s1, out |-> <<>>]
                ELSE IF split.val
                THEN cast_vote(s1, merge_vote)
                ELSE IF is_super_majority_over_super_majorities(s1, held)
                THEN IF s1.id \in members(s1, s1.gen).val
                     THEN [res |-> "Ok", st |-> store_decision(s1, sm_vote), out |-> <<>>]
                     ELSE IF is_super_majority_over_super_majorities(s1, unpack_votes(vote))
                     THEN [res |-> "Ok", st |-> store_decision(s1, vote), out |-> <<>>]
                     ELSE [res |-> "Ok", st |-> s1, out |-> <<>>]
                ELSE IF is_super_majority(s1, held)
                THEN IF we_voted /\ we_have_comitted_to_reconfigs_not_in_super_majority
                     THEN [res |-> "Ok", st |-> s1, out |-> <<>>]
                     ELSE IF we_voted /\ is_super_majority_ballot(s1.votes[s1.id])
                     THEN [res |-> "Ok", st |-> s1, out |-> <<>>]
                     ELSE cast_vote(s1, sm_vote)
                ELSE IF ~ we_voted
                THEN cast_vote(s1, build_vote(s1, s1.pending_gen, vote.ballot))
                ELSE [res |-> "Ok", st |-> s1, out |-> <<>>] :
                split \in {is_split_vote(s1, Range(s1.votes))}}) :
            s1 \in {[s EXCEPT !.votes = log_vote(s.votes, vote),
                               !.pending_gen = vote.gen]}}) :
        v \in {validate_vote(s, vote)}})

\* handle_vote that never contributes a first vote.
handle_vote_no_fallback(s, vote) ==
    Only({
        IF v # "Ok" THEN [res |-> v, st |-> s, out |-> <<>>]
        ELSE Only({
            LET held == Range(s1.votes)
                we_voted == s1.id \in DOMAIN s1.votes
                merge_vote == build_vote(s1, s1.pending_gen, simplify(Merge(held)))
                sm_vote == build_vote(s1, s1.pending_gen, simplify(SuperMajority(held)))
                super_majority_reconfigs == resolve_votes(held)
                we_have_comitted_to_reconfigs_not_in_super_majority ==
                    \E r \in resolve_votes(unpack_votes(s1.votes[s1.id])) :
                        r \notin super_majority_reconfigs
            IN  Only({
                IF split.panic
                THEN [res |-> "Panic", st |-> s1, out |-> <<>>]
                ELSE IF split.val
                THEN IF we_voted /\ reconfig_set(s1.votes[s1.id]) = reconfig_set(merge_vote)
                     THEN [res |-> "Ok", st |-> s1, out |-> <<>>]
                     ELSE cast_vote(s1, merge_vote)
                ELSE IF is_super_majority_over_super_majorities(s1, held)
                THEN IF s1.id \in members(s1, s1.gen).val
                     THEN [res |-> "Ok", st |-> store_decision(s1, sm_vote), out |-> <<>>]
                     ELSE IF is_super_majority_over_super_majorities(s1, unpack_votes(vote))
                     THEN [res |-> "Ok", st |-> store_decision(s1, vote), out |-> <<>>]
                     ELSE [res |-> "Ok", st |-> s1, out |-> <<>>]
                ELSE IF is_super_majority(s1, held)
                THEN IF we_voted /\ we_have_comitted_to_reconfigs_not_in_super_majority
                     THEN [res |-> "Ok", st |-> s1, out |-> <<>>]
                     ELSE IF we_voted /\ is_super_majority_ballot(s1.votes[s1.id])
                     THEN [res |-> "Ok", st |-> s1, out |-> <<>>]
                     ELSE cast_vote(s1, sm_vote)
                ELSE [res |-> "Ok", st |-> s1, out |-> <<>>] :
                split \in {is_split_vote(s1, Range(s1.votes))}}) :
            s1 \in {[s EXCEPT !.votes = log_vote(s.votes, vote),
                               !.pending_gen = vote.gen]}}) :
        v \in {validate_vote(s, vote)}})

\* handle_vote without the test that our vote is already a SuperMajority
\* ballot.
handle_vote_resends_super_majority(s, vote) ==
    Only({
        IF v # "Ok" THEN [res |-> v, st |-> s, out |-> <<>>]
        ELSE Only({
            LET held == Range(s1.votes)
                we_voted == s1.id \in DOMAIN s1.votes
                merge_vote == build_vote(s1, s1.pending_gen, simplify(Merge(held)))
                sm_vote == build_vote(s1, s1.pending_gen, simplify(SuperMajority(held)))
                super_majority_reconfigs == resolve_votes(held)
                we_have_comitted_to_reconfigs_not_in_super_majority ==
                    \E r \in resolve_votes(unpack_votes(s1.votes[s1.id])) :
                        r \notin super_majority_reconfigs
            IN  Only({
                IF split.panic
                THEN [res |-> "Panic", st |-> s1, out |-> <<>>]
                ELSE IF split.val
                THEN IF we_voted /\ reconfig_set(s1.votes[s1.id]) = reconfig_set(merge_vote)
                     THEN [res |-> "Ok", st |-> s1, out |-> <<>>]
                     ELSE cast_vote(s1, merge_vote)
                ELSE IF is_super_majority_over_super_majorities(s1, held)
                THEN IF s1.id \in members(s1, s1.gen).val
                     THEN [res |-> "Ok", st |-> store_decision(s1, sm_vote), out |-> <<>>]
                     ELSE IF is_super_majority_over_super_majorities(s1, unpack_votes(vote))
                     THEN [res |-> "Ok", st |-> store_decision(s1, vote), out |-> <<>>]
                     ELSE [res |-> "Ok", st |-> s1, out |-> <<>>]
                ELSE IF is_super_majority(s1, held)
                THEN IF we_voted /\ we_have_comitted_to_reconfigs_not_in_super_majority
                     THEN [res |-> "Ok", st |-> s1, out |-> <<>>]
                     ELSE cast_vote(s1, sm_vote)
                ELSE IF ~ we_voted
                THEN cast_vote(s1, build_vote(s1, s1.pending_gen, vote.ballot))
                ELSE [res |-> "Ok", st |-> s1, out |-> <<>>] :
                split \in {is_split_vote(s1, Range(s1.votes))}}) :
            s1 \in {[s EXCEPT !.votes = log_vote(s.votes, vote),
                               !.pending_gen = vote.gen]}}) :
        v \in {validate_vote(s, vote)}})

\* State::handle_vote.  The result is the Result returned (res), the state
\* the call leaves behind (st) and the vote messages returned (out); res is
\* "Panic" when the call panics instead of returning.
handle_vote(s, vote) ==
    Only({
        IF v # "Ok" THEN [res |-> v, st |-> s, out |-> <<>>]
        ELSE Only({
            LET held == Range(s1.votes)
                we_voted == s1.id \in DOMAIN s1.votes
                merge_vote == build_vote(s1, s1.pending_gen, simplify(Merge(held)))
                sm_vote == build_vote(s1, s1.pending_gen, simplify(SuperMajority(held)))
                super_majority_reconfigs == resolve_votes(held)
                we_have_comitted_to_reconfigs_not_in_super_majority ==
                    \E r \in resolve_votes(unpack_votes(s1.votes[s1.id])) :
                        r \notin super_majority_reconfigs
            IN  Only({
                IF split.panic
                THEN [res |-> "Panic", st |-> s1, out |-> <<>>]
                ELSE IF split.val
                THEN IF we_voted /\ reconfig_set(s1.votes[s1.id]) = reconfig_set(merge_vote)
                     THEN [res |-> "Ok", st |-> s1, out |-> <<>>]
                     ELSE cast_vote(s1, merge_vote)
                ELSE IF is_super_majority_over_super_majorities(s1, held)
                THEN IF s1.id \in members(s1, s1.gen).val
                     THEN [res |-> "Ok", st |-> store_decision(s1, sm_vote), out |-> <<>>]
                     ELSE IF is_super_majority_over_super_majorities(s1, unpack_votes(vote))
                     THEN [res |-> "Ok", st |-> store_decision(s1, vote), out |-> <<>>]
                     ELSE [res |-> "Ok", st |-> s1, out |-> <<>>]
                ELSE IF is_super_majority(s1, held)
                THEN IF we_voted /\ we_have_comitted_to_reconfigs_not_in_super_majority
                     THEN [res |-> "Ok", st |-> s1, out |-> <<>>]
                     ELSE IF we_voted /\ is_super_majority_ballot(s1.votes[s1.id])
                     THEN [res |-> "Ok", st |-> s1, out |-> <<>>]
                     ELSE cast_vote(s1, sm_vote)
                ELSE IF ~ we_voted
                THEN cast_vote(s1, build_vote(s1, s1.pending_gen, vote.ballot))
                ELSE [res |-> "Ok", st |-> s1, out |-> <<>>] :
                split \in {is_split_vote(s1, Range(s1.votes))}}) :
            s1 \in {[s EXCEPT !.votes = log_vote(s.votes, vote),
                               !.pending_gen = vote.gen]}}) :
        v \in {validate_vote(s, vote)}})

\* --------------------------------------------------- version clocks, dots
\* VClock::get is 0 for an absent actor: a clock is a function on Actors.
NewClock == [a \in Actors |-> 0]
Dot(actor, counter) == [actor |-> actor, counter |-> counter]
inc(clock, actor) == Dot(actor, clock[actor] + 1)
apply_dot(clock, dot) ==
    IF dot.counter > clock[dot.actor]
    THEN [clock EXCEPT ![dot.actor] = dot.counter] ELSE clock

\* ------------------------------------------------------ BRB: packets, ops
Msg(gen, op, dot) == [gen |-> gen, op |-> op, dot |-> dot]
RequestValidation(msg) == [tag |-> "RequestValidation", msg |-> msg]
SignedValidated(msg, sig) == [tag |-> "SignedValidated", msg |-> msg, sig |-> sig]
ProofOfAgreement(msg, proof) ==
    [tag |-> "ProofOfAgreement", msg |-> msg, proof |-> proof]
AntiEntropy(generation, delivered) ==
    [tag |-> "AntiEntropy", generation |-> generation, delivered |-> delivered]
BRB(op) == [tag |-> "BRB", op |-> op]
Membership(vote) == [tag |-> "Membership", vote |-> vote]

\* DeterministicBRB::new
DeterministicBRB_new(id) ==
    [id |-> id, gen |-> 0, pending_gen |-> 0, forced_reconfigs |-> EmptyMap,
     history |-> EmptyMap, votes |-> EmptyMap,
     pending_proof |-> EmptyMap, received |-> NewClock, delivered |-> NewClock,
     history_from_source |-> [a \in Actors |-> <<>>], dt |-> <<>>]

\* BRBDataType::validate and apply of the tests' TestDT: every op is valid;
\* the data type is kept as the log of the ops applied to it.
dt_validate(dt, source, op) == TRUE
dt_apply(dt, op) == Append(dt, op)

peers(s) == members(s, s.gen)

send(s, dest, payload) ==
    [source |-> s.id, dest |-> dest, payload |-> payload, sig |-> sign(s.id, payload)]

broadcast(s, payload, targets) ==
    LET dests == SortedSeq(targets)
    IN  [i \in 1..Len(dests) |-> send(s, dests[i], payload)]

send_votes(s, vote_msgs) ==
    [i \in 1..Len(vote_msgs) |->
        send(s, vote_msgs[i].dest, Membership(vote_msgs[i].vote))]

\* Variant: one third of the members already counts as a supermajority.
supermajority_one_third(s, n, gen) ==
    LET m == members(s, gen)
    IN  IF m.ok THEN Ok(n * 3 > Cardinality(m.val)) ELSE m

supermajority(s, n, gen) ==
    LET m == members(s, gen)
    IN  IF m.ok THEN Ok(n * 3 > Cardinality(m.val) * 2) ELSE m

request_membership(s, actor) ==
    Only({[res |-> r.res, st |-> r.st, out |-> send_votes(r.st, r.out)] :
          r \in {propose(s, Join(actor))}})

kill_peer(s, actor) ==
    Only({[res |-> r.res, st |-> r.st, out |-> send_votes(r.st, r.out)] :
          r \in {propose(s, Leave(actor))}})

anti_entropy(s, peer) == send(s, peer, AntiEntropy(s.gen, s.delivered))

\* exec_op takes &self: the dot is received.inc(actor) and no clock moves.
exec_op(s, op) ==
    LET msg == Msg(s.gen, op, inc(s.received, s.id))
        m == peers(s)
    IN  IF ~ m.ok THEN [res |-> m.err, st |-> s, out |-> <<>>]
        ELSE [res |-> "Ok", st |-> s,
              out |-> broadcast(s, BRB(RequestValidation(msg)), m.val)]

\* Variant: a request of any generation is validated.
validate_request_validation_any_generation(s, from, msg) ==
    LET m == members(s, s.gen)
    IN  IF from # msg.dot.actor THEN "PacketSourceIsNotDot"
        ELSE IF msg.dot # inc(s.received, from) THEN "MsgDotNotTheNextDot"
        ELSE IF msg.dot # inc(s.delivered, from) THEN "SourceAlreadyHasPendingMsg"
        ELSE IF ~ m.ok THEN m.err
        ELSE IF from \notin m.val THEN "SourceIsNotVotingMember"
        ELSE IF ~ dt_validate(s.dt, from, msg.op) THEN "DataTypeFailedValidation"
        ELSE "Ok"

\* Variant: the dot order is checked before the source of the packet.
validate_request_validation_dot_order_first(s, from, msg) ==
    LET m == members(s, s.gen)
    IN  IF msg.dot # inc(s.received, from) THEN "MsgDotNotTheNextDot"
        ELSE IF from # msg.dot.actor THEN "PacketSourceIsNotDot"
        ELSE IF msg.dot # inc(s.delivered, from) THEN "SourceAlreadyHasPendingMsg"
        ELSE IF msg.gen # s.gen THEN "MessageFromDifferentGeneration"
        ELSE IF ~ m.ok THEN m.err
        ELSE IF from \notin m.val THEN "SourceIsNotVotingMember"
        ELSE IF ~ dt_validate(s.dt, from, msg.op) THEN "DataTypeFailedValidation"
        ELSE "Ok"

\* Variant: a request is accepted as soon as its dot follows `received`.
validate_request_validation_no_pending_check(s, from, msg) ==
    LET m == members(s, s.gen)
    IN  IF from # msg.dot.actor THEN "PacketSourceIsNotDot"
        ELSE IF msg.dot # inc(s.received, from) THEN "MsgDotNotTheNextDot"
        ELSE IF msg.gen # s.gen THEN "MessageFromDifferentGeneration"
        ELSE IF ~ m.ok THEN m.err
        ELSE IF from \notin m.val THEN "SourceIsNotVotingMember"
        ELSE IF ~ dt_validate(s.dt, from, msg.op) THEN "DataTypeFailedValidation"
        ELSE "Ok"

validate_request_validation(s, from, msg) ==
    LET m == members(s, s.gen)
    IN  IF from # msg.dot.actor THEN "PacketSourceIsNotDot"
        ELSE IF msg.dot # inc(s.received, from) THEN "MsgDotNotTheNextDot"
        ELSE IF msg.dot # inc(s.delivered, from) THEN "SourceAlreadyHasPendingMsg"
        ELSE IF msg.gen # s.gen THEN "MessageFromDifferentGeneration"
        ELSE IF ~ m.ok THEN m.err
        ELSE IF from \notin m.val THEN "SourceIsNotVotingMember"
        ELSE IF ~ dt_validate(s.dt, from, msg.op) THEN "DataTypeFailedValidation"
        ELSE "Ok"

validate_signed_validated(s, from, msg, sig) ==
    IF ~ verify(msg, from, sig) THEN "InvalidSignature"
    ELSE IF s.id # msg.dot.actor THEN "SignedValidatedForPacketWeDidNotRequest"
    ELSE "Ok"

\* Variant: a proof is accepted whatever its dot.
validate_proof_of_agreement_any_dot(s, msg, proof) ==
    LET msg_members == members(s, msg.gen)
    IN  IF ~ msg_members.ok THEN msg_members.err
        ELSE IF ~ supermajority(s, Cardinality(DOMAIN proof), msg.gen).val
        THEN "NotEnoughSignaturesToFormQuorum"
        ELSE IF ~ \A signer \in DOMAIN proof : signer \in msg_members.val
        THEN "ProofContainsSignaturesFromNonMembers"
        ELSE IF \E signer \in DOMAIN proof : ~ verify(msg, signer, proof[signer])
        THEN "ProofContainsInvalidSignatures"
        ELSE "Ok"

\* Variant: the signers are checked for membership before they are counted.
validate_proof_of_agreement_members_first(s, msg, proof) ==
    LET msg_members == members(s, msg.gen)
    IN  IF ~ msg_members.ok THEN msg_members.err
        ELSE IF inc(s.delivered, msg.dot.actor) # msg.dot
        THEN "MsgDotNotNextDotToBeDelivered"
        ELSE IF ~ \A signer \in DOMAIN proof : signer \in msg_members.val
        THEN "ProofContainsSignaturesFromNonMembers"
        ELSE IF ~ supermajority(s, Cardinality(DOMAIN proof), msg.gen).val
        THEN "NotEnoughSignaturesToFormQuorum"
        ELSE IF \E signer \in DOMAIN proof : ~ verify(msg, signer, proof[signer])
        THEN "ProofContainsInvalidSignatures"
        ELSE "Ok"

\* Variant: the proof is checked against the members of the current
\* generation.
validate_proof_of_agreement_current_members(s, msg, proof) ==
    LET msg_members == members(s, s.gen)
    IN  IF ~ msg_members.ok THEN msg_members.err
        ELSE IF inc(s.delivered, msg.dot.actor) # msg.dot
        THEN "MsgDotNotNextDotToBeDelivered"
        ELSE IF ~ supermajority(s, Cardinality(DOMAIN proof), s.gen).val
        THEN "NotEnoughSignaturesToFormQuorum"
        ELSE IF ~ \A signer \in DOMAIN proof : signer \in msg_members.val
        THEN "ProofContainsSignaturesFromNonMembers"
        ELSE IF \E signer \in DOMAIN proof : ~ verify(msg, signer, proof[signer])
        THEN "ProofContainsInvalidSignatures"
        ELSE "Ok"

validate_proof_of_agreement(s, msg, proof) ==
    LET msg_members == members(s, msg.gen)
    IN  IF ~ msg_members.ok THEN msg_members.err
        ELSE IF inc(s.delivered, msg.dot.actor) # msg.dot
        THEN "MsgDotNotNextDotToBeDelivered"
        ELSE IF ~ supermajority(s, Cardinality(DOMAIN proof), msg.gen).val
        THEN "NotEnoughSignaturesToFormQuorum"
        ELSE IF ~ \A signer \in DOMAIN proof : signer \in msg_members.val
        THEN "ProofContainsSignaturesFromNonMembers"
        ELSE IF \E signer \in DOMAIN proof : ~ verify(msg, signer, proof[signer])
        THEN "ProofContainsInvalidSignatures"
        ELSE "Ok"

validate_brb_op(s, from, op) ==
    IF op.tag = "RequestValidation"
    THEN validate_request_validation(s, from, op.msg)
    ELSE IF op.tag = "SignedValidated"
    THEN validate_signed_validated(s, from, op.msg, op.sig)
    ELSE validate_proof_of_agreement(s, op.msg, op.proof)

validate_payload(s, from, payload) ==
    IF payload.tag = "BRB" THEN validate_brb_op(s, from, payload.op) ELSE "Ok"

validate_packet(s, packet) ==
    IF ~ verify(packet.payload, packet.source, packet.sig) THEN "InvalidSignature"
    ELSE validate_payload(s, packet.source, packet.payload)

\* pending_proof.entry(msg).or_default().insert(source, sig)
insert_pending_proof(pending_proof, msg, source, sig) ==
    LET old == IF msg \in DOMAIN pending_proof THEN pending_proof[msg] ELSE EmptyMap
        new == [a \in DOMAIN old \cup {source} |-> IF a = source THEN sig ELSE old[a]]
    IN  [m \in DOMAIN pending_proof \cup {msg} |->
            IF m = msg THEN new ELSE pending_proof[m]]

remove_pending_proof(pending_proof, msg) ==
    [m \in DOMAIN pending_proof \ {msg} |-> pending_proof[m]]

\* Variant: the request is recorded and no signature is sent back.
process_request_validation_no_reply(s, source, msg) ==
    [res |-> "Ok",
     st |-> [s EXCEPT !.received = apply_dot(s.received, msg.dot)],
     out |-> <<>>]

\* The RequestValidation arm without received.apply(msg.dot).
process_request_validation_keeps_received(s, source, msg) ==
    [res |-> "Ok",
     st |-> s,
     out |-> <<send(s, source, BRB(SignedValidated(msg, sign(s.id, msg))))>>]

process_request_validation(s, source, msg) ==
    [res |-> "Ok",
     st |-> [s EXCEPT !.received = apply_dot(s.received, msg.dot)],
     out |-> <<send(s, source, BRB(SignedValidated(msg, sign(s.id, msg))))>>]

\* The signature is stored before supermajority(..)? is evaluated, so an
\* unknown msg.gen returns the error with pending_proof already changed.
process_signed_validated(s, source, msg, sig) ==
    LET s1 == [s EXCEPT !.pending_proof =
                   insert_pending_proof(s.pending_proof, msg, source, sig)]
        num_signatures == Cardinality(DOMAIN s1.pending_proof[msg])
        reached == supermajority(s1, num_signatures, msg.gen)
        proof == s1.pending_proof[msg]
        recipients == members(s1, msg.gen).val \cup {s1.id}
    IN  IF ~ reached.ok THEN [res |-> reached.err, st |-> s1, out |-> <<>>]
        ELSE IF reached.val /\ ~ supermajority(s1, num_signatures - 1, msg.gen).val
        THEN [res |-> "Ok", st |-> s1,
              out |-> broadcast(s1, BRB(ProofOfAgreement(msg, proof)), recipients)]
        ELSE [res |-> "Ok", st |-> s1, out |-> <<>>]

\* Variant: delivery keeps the signatures collected for the message.
process_proof_of_agreement_keeps_pending(s, msg, proof) ==
    [res |-> "Ok",
     st |-> [s EXCEPT
         !.received = apply_dot(s.received, msg.dot),
         !.delivered = apply_dot(s.delivered, msg.dot),
         !.history_from_source[msg.dot.actor] =
             Append(@, [msg |-> msg, proof |-> proof]),
         !.dt = dt_apply(s.dt, msg.op)],
     out |-> <<>>]

\* Variant: delivery does not bring `received` up to the dot.
process_proof_of_agreement_no_received(s, msg, proof) ==
    [res |-> "Ok",
     st |-> [s EXCEPT
         !.delivered = apply_dot(s.delivered, msg.dot),
         !.history_from_source[msg.dot.actor] =
             Append(@, [msg |-> msg, proof |-> proof]),
         !.pending_proof = remove_pending_proof(s.pending_proof, msg),
         !.dt = dt_apply(s.dt, msg.op)],
     out |-> <<>>]

\* Variant: delivery does not advance `delivered`.
process_proof_of_agreement_no_delivered(s, msg, proof) ==
    [res |-> "Ok",
     st |-> [s EXCEPT
         !.received = apply_dot(s.received, msg.dot),
         !.history_from_source[msg.dot.actor] =
             Append(@, [msg |-> msg, proof |-> proof]),
         !.pending_proof = remove_pending_proof(s.pending_proof, msg),
         !.dt = dt_apply(s.dt, msg.op)],
     out |-> <<>>]

process_proof_of_agreement(s, msg, proof) ==
    [res |-> "Ok",
     st |-> [s EXCEPT
         !.received = apply_dot(s.received, msg.dot),
         !.delivered = apply_dot(s.delivered, msg.dot),
         !.history_from_source[msg.dot.actor] =
             Append(@, [msg |-> msg, proof |-> proof]),
         !.pending_proof = remove_pending_proof(s.pending_proof, msg),
         !.dt = dt_apply(s.dt, msg.op)],
     out |-> <<>>]

process_brb_op(s, source, op) ==
    IF op.tag = "RequestValidation"
    THEN process_request_validation(s, source, op.msg)
    ELSE IF op.tag = "SignedValidated"
    THEN process_signed_validated(s, source, op.msg, op.sig)
    ELSE process_proof_of_agreement(s, op.msg, op.proof)

\* Variant: answering an anti-entropy request drops the signatures collected
\* so far.
process_anti_entropy_clears_pending(s, source, generation, delivered) ==
    [res |-> "Ok", st |-> [s EXCEPT !.pending_proof = EmptyMap], out |-> <<>>]

\* Variant: the entries the requester has delivered last are sent again.
process_anti_entropy_resends_seen(s, source, generation, delivered) ==
    LET votes_to_send == send_votes(s, anti_entropy_votes(s, generation, source))
        missing(a) == SelectSeq(s.history_from_source[a],
                                LAMBDA e : e.msg.dot.counter >= delivered[a])
        proofs(a) == [i \in 1..Len(missing(a)) |->
                        send(s, source,
                             BRB(ProofOfAgreement(missing(a)[i].msg, missing(a)[i].proof)))]
        srcs == SortedSeq({a \in Actors : s.history_from_source[a] # <<>>})
    IN  [res |-> "Ok", st |-> s,
         out |-> votes_to_send \o Flatten([i \in 1..Len(srcs) |-> proofs(srcs[i])])]

\* The AntiEntropy arm of process_packet: the membership votes, then for
\* each source the stored entries above the requester's delivered counter.
process_anti_entropy(s, source, generation, delivered) ==
    LET votes_to_send == send_votes(s, anti_entropy_votes(s, generation, source))
        missing(a) == SelectSeq(s.history_from_source[a],
                                LAMBDA e : e.msg.dot.counter > delivered[a])
        proofs(a) == [i \in 1..Len(missing(a)) |->
                        send(s, source,
                             BRB(ProofOfAgreement(missing(a)[i].msg, missing(a)[i].proof)))]
        srcs == SortedSeq({a \in Actors : s.history_from_source[a] # <<>>})
    IN  [res |-> "Ok", st |-> s,
         out |-> votes_to_send \o Flatten([i \in 1..Len(srcs) |-> proofs(srcs[i])])]

process_packet(s, packet) ==
    IF packet.payload.tag = "AntiEntropy"
    THEN process_anti_entropy(s, packet.source, packet.payload.generation,
                              packet.payload.delivered)
    ELSE IF packet.payload.tag = "BRB"
    THEN process_brb_op(s, packet.source, packet.payload.op)
    ELSE Only({[res |-> r.res, st |-> r.st, out |-> send_votes(r.st, r.out)] :
               r \in {handle_vote(s, packet.payload.vote)}})

handle_packet(s, packet) ==
    Only({IF v # "Ok" THEN [res |-> v, st |-> s, out |-> <<>>]
          ELSE process_packet(s, packet) :
          v \in {validate_packet(s, packet)}})

\* ---------------------------------------------------------- state machine
VARIABLES
    procs,
    gen, pending_gen, forced_reconfigs, history, votes,
    pending_proof, received, delivered, history_from_source, dt,
    net, queue, nOperations

procVars == <<gen, pending_gen, forced_reconfigs, history, votes,
              pending_proof, received, delivered, history_from_source, dt>>
vars == <<procs, overflow_checks, procVars, net, queue, nOperations>>

\* The DeterministicBRB of process p.
State(p) ==
    [id |-> p, gen |-> gen[p], pending_gen |-> pending_gen[p],
     forced_reconfigs |-> forced_reconfigs[p], history |-> history[p],
     votes |-> votes[p], pending_proof |-> pending_proof[p],
     received |-> received[p], delivered |-> delivered[p],
     history_from_source |-> history_from_source[p], dt |-> dt[p]]

World == [p \in Actors |-> State(p)]

InstallWorld(world) ==
    /\ gen' = [p \in Actors |-> world[p].gen]
    /\ pending_gen' = [p \in Actors |-> world[p].pending_gen]
    /\ forced_reconfigs' = [p \in Actors |-> world[p].forced_reconfigs]
    /\ history' = [p \in Actors |-> world[p].history]
    /\ votes' = [p \in Actors |-> world[p].votes]
    /\ pending_proof' = [p \in Actors |-> world[p].pending_proof]
    /\ received' = [p \in Actors |-> world[p].received]
    /\ delivered' = [p \in Actors |-> world[p].delivered]
    /\ history_from_source' = [p \in Actors |-> world[p].history_from_source]
    /\ dt' = [p \in Actors |-> world[p].dt]

Install(p, st) == InstallWorld([World EXCEPT ![p] = st])

\* Every process constructed, then bootstrapped the way the tests do it:
\* each force_joins the same seed members.
RECURSIVE force_join_all(_, _)
force_join_all(s, seed) ==
    IF seed = {} THEN s
    ELSE force_join_all(force_join(s, SetMin(seed)), seed \ {SetMin(seed)})

\* The processes `running` exist (Net::procs); each has force_joined `seed`.
InitWith(running, seed) ==
    /\ procs = running
    /\ overflow_checks \in BOOLEAN
    /\ \E world \in {[p \in Actors |-> force_join_all(DeterministicBRB_new(p), seed)]} :
        /\ gen = [p \in Actors |-> world[p].gen]
        /\ pending_gen = [p \in Actors |-> world[p].pending_gen]
        /\ forced_reconfigs = [p \in Actors |-> world[p].forced_reconfigs]
        /\ history = [p \in Actors |-> world[p].history]
        /\ votes = [p \in Actors |-> world[p].votes]
        /\ pending_proof = [p \in Actors |-> world[p].pending_proof]
        /\ received = [p \in Actors |-> world[p].received]
        /\ delivered = [p \in Actors |-> world[p].delivered]
        /\ history_from_source = [p \in Actors |-> world[p].history_from_source]
        /\ dt = [p \in Actors |-> world[p].dt]
    /\ net = {}
    /\ queue = <<>>
    /\ nOperations = 0

\* ------------------------------------------- asynchronous transport
\* The transport is the set of packets sent so far: it may delay, reorder,
\* repeat and lose them.

\* exec_op(op) at process p; the packets returned go to the transport.
ExecOp(p, op) ==
    /\ nOperations < MaxOperations
    /\ \E r \in {exec_op(State(p), op)} : net' = net \cup Range(r.out)
    /\ nOperations' = nOperations + 1
    /\ UNCHANGED <<procs, overflow_checks, procVars, queue>>

\* request_membership(actor) at process p.
RequestMembership(p, actor) ==
    /\ nOperations < MaxOperations
    /\ \E r \in {request_membership(State(p), actor)} :
        /\ Install(p, r.st)
        /\ net' = net \cup Range(r.out)
    /\ nOperations' = nOperations + 1
    /\ UNCHANGED <<procs, overflow_checks, queue>>

\* kill_peer(actor) at process p.
KillPeer(p, actor) ==
    /\ nOperations < MaxOperations
    /\ \E r \in {kill_peer(State(p), actor)} :
        /\ Install(p, r.st)
        /\ net' = net \cup Range(r.out)
    /\ nOperations' = nOperations + 1
    /\ UNCHANGED <<procs, overflow_checks, queue>>

\* anti_entropy(peer) at process p: the request packet goes to the transport.
AntiEntropyRequest(p, peer) ==
    /\ nOperations < MaxOperations
    /\ net' = net \cup {anti_entropy(State(p), peer)}
    /\ nOperations' = nOperations + 1
    /\ UNCHANGED <<procs, overflow_checks, procVars, queue>>

\* The transport hands a packet to its destination, which runs
\* handle_packet (Net::deliver_packet); a packet for no process is dropped.
\* A process that panics is gone.
HandlePacket(packet) ==
    /\ packet \in net
    /\ packet.dest \in procs
    /\ \E r \in {handle_packet(State(packet.dest), packet)} :
        /\ Install(packet.dest, r.st)
        /\ net' = net \cup Range(r.out)
        /\ procs' = IF r.res = "Panic" THEN procs \ {packet.dest} ELSE procs
    /\ UNCHANGED <<overflow_checks, queue, nOperations>>

Init == InitWith({1, 2, 3}, {1, 2})

Next ==
    \/ \E p \in procs, op \in Ops : ExecOp(p, op)
    \/ \E p \in procs, a \in procs : RequestMembership(p, a)
    \/ \E p \in procs, a \in procs : KillPeer(p, a)
    \/ \E p \in procs, q \in procs : AntiEntropyRequest(p, q)
    \/ \E packet \in net : HandlePacket(packet)

Spec == Init /\ [][Next]_vars

\* ------------------------------------------------ the test harness
\* Net keeps the packets in a first-in first-out queue; a test delivers the
\* first packet or holds it back, and starts the next operation when the
\* queue has run empty.

\* Net::run_packets_to_completion: deliver the packets first in, first
\* out, appending what each delivery returns; a rejected packet returns
\* nothing, a packet for no process is dropped.
RECURSIVE run_packets_to_completion(_, _, _)
run_packets_to_completion(running, world, packets) ==
    IF packets = <<>> THEN [running |-> running, world |-> world]
    ELSE LET packet == Head(packets)
         IN  IF packet.dest \notin running
             THEN run_packets_to_completion(running, world, Tail(packets))
             ELSE Only({run_packets_to_completion(
                            IF r.res = "Panic" THEN running \ {packet.dest} ELSE running,
                            [world EXCEPT ![packet.dest] = r.st],
                            Tail(packets) \o (IF r.res = "Ok" THEN r.out ELSE <<>>)) :
                        r \in {handle_packet(world[packet.dest], packet)}})

\* exec_op(op) at process p; the packets returned are queued.
ExecOpQueued(p, op) ==
    /\ queue = <<>>
    /\ nOperations < MaxOperations
    /\ queue' = exec_op(State(p), op).out
    /\ nOperations' = nOperations + 1
    /\ UNCHANGED <<procs, overflow_checks, procVars, net>>

\* Member p removes itself and the harness runs the membership packets to
\* completion (test_concurrent_op_and_member_change).
KillPeerToCompletion(p) ==
    /\ queue = <<>>
    /\ \E r \in {kill_peer(State(p), p)} :
        /\ r.res = "Ok"
        /\ \E run \in {run_packets_to_completion(
                            procs, [World EXCEPT ![p] = r.st], r.out)} :
               /\ InstallWorld(run.world)
               /\ procs' = run.running
    /\ UNCHANGED <<overflow_checks, net, queue, nOperations>>

\* Net::deliver_packet on the first queued packet.
DeliverPacket ==
    /\ queue # <<>>
    /\ Head(queue).dest \in procs
    /\ \E r \in {handle_packet(State(Head(queue).dest), Head(queue))} :
        /\ Install(Head(queue).dest, r.st)
        /\ queue' = Tail(queue) \o (IF r.res = "Ok" THEN r.out ELSE <<>>)
        /\ procs' = IF r.res = "Panic" THEN procs \ {Head(queue).dest} ELSE procs
    /\ UNCHANGED <<overflow_checks, net, nOperations>>

\* The test holds the first queued packet back and never delivers it.
HoldPacket ==
    /\ queue # <<>>
    /\ queue' = Tail(queue)
    /\ UNCHANGED <<procs, overflow_checks, procVars, net, nOperations>>

\* Four members; process 1 executes operations while the other members
\* leave, the last one first.
InitQueue == InitWith({1, 2, 3, 4}, {1, 2, 3, 4}) /\ overflow_checks

NextQueue ==
    \/ \E op \in Ops : ExecOpQueued(1, op)
    \/ \E p \in procs \ {1} :
           p = SetMax(peers(State(p)).val) /\ KillPeerToCompletion(p)
    \/ DeliverPacket
    \/ HoldPacket

SpecQueue == InitQueue /\ [][NextQueue]_vars

\* ------------------------------------------------ a reliable network
\* exec_op(op) at process p, and the packets it returns run to completion
\* before anything else happens (prop_adds_show_up_on_read).
ExecOpToCompletion(p, op) ==
    /\ nOperations < MaxOperations
    /\ \E r \in {exec_op(State(p), op)} :
        /\ r.res = "Ok"
        /\ \E run \in {run_packets_to_completion(procs, World, r.out)} :
               /\ InstallWorld(run.world)
               /\ procs' = run.running
    /\ nOperations' = nOperations + 1
    /\ UNCHANGED <<overflow_checks, net, queue>>

\* A fixed member set: the first k actors, all running, all members.
InitReliable == \E k \in 1..NActors : InitWith(1..k, 1..k)

NextReliable == \E p \in procs, op \in Ops : ExecOpToCompletion(p, op)

SpecReliable == InitReliable /\ [][NextReliable]_vars

\* ------------------------------------- the membership tests' network
\* The tests of the membership module keep one first-in first-out queue of
\* packets per source; `queue` holds them all in the order they were
\* enqueued, and the queue of a source is the packets of that source in it.

\* Net::enqueue_anti_entropy(i, j): j's anti-entropy answer for i's
\* generation, addressed to i.
enqueue_anti_entropy(i, j) ==
    send_votes(State(j), anti_entropy_votes(State(j), gen[i], i))

\* All pairs (i, j), i outermost, both in the processes' order.
all_pairs_anti_entropy ==
    LET ps == SortedSeq(procs)
    IN  Flatten([n \in 1..(Len(ps) * Len(ps)) |->
            enqueue_anti_entropy(ps[((n - 1) \div Len(ps)) + 1],
                                 ps[((n - 1) % Len(ps)) + 1])])

\* Each seed member i proposes Join of its own non-member, before any packet
\* is delivered (test_split_vote); the votes are enqueued.
RECURSIVE propose_joins(_, _)
propose_joins(world, seeds) ==
    IF seeds = {} THEN [world |-> world, out |-> <<>>]
    ELSE Only({Only({[world |-> rest.world, out |-> r.out \o rest.out] :
                     rest \in {propose_joins([world EXCEPT ![SetMin(seeds)] = r.st],
                                             seeds \ {SetMin(seeds)})}}) :
               r \in {request_membership(world[SetMin(seeds)],
                                         SetMin(seeds) + Cardinality(procs) \div 2)}})

ProposeJoins ==
    /\ nOperations = 0
    /\ \E r \in {propose_joins(World, members(State(1), 0).val)} :
        /\ InstallWorld(r.world)
        /\ queue' = r.out
    /\ nOperations' = 1
    /\ UNCHANGED <<procs, overflow_checks, net>>

\* Net::deliver_packet_from_source: the first queued packet of `source` is
\* handled by its destination and the votes returned are enqueued; a
\* rejected packet returns nothing, and a packet for a destination that no
\* process runs is dropped.  A panic in the handler ends the test: no
\* process runs after it.
DeliverFromSource(source) ==
    /\ \E i \in 1..Len(queue) :
        /\ queue[i].source = source
        /\ \A j \in 1..(i - 1) : queue[j].source # source
        /\ IF queue[i].dest \in procs
           THEN \E r \in {handle_packet(State(queue[i].dest), queue[i])} :
                /\ Install(queue[i].dest, r.st)
                /\ queue' = SubSeq(queue, 1, i - 1) \o SubSeq(queue, i + 1, Len(queue))
                                \o (IF r.res = "Ok" THEN r.out ELSE <<>>)
                /\ procs' = IF r.res = "Panic" THEN {} ELSE procs
           ELSE /\ queue' = SubSeq(queue, 1, i - 1) \o SubSeq(queue, i + 1, Len(queue))
                /\ UNCHANGED <<procs, procVars>>
    /\ UNCHANGED <<overflow_checks, net, nOperations>>

\* Once the queues have run empty, anti-entropy between all pairs is
\* enqueued.
EnqueueAntiEntropy ==
    /\ nOperations = 1
    /\ queue = <<>>
    /\ queue' = all_pairs_anti_entropy
    /\ nOperations' = 2
    /\ UNCHANGED <<procs, overflow_checks, procVars, net>>

\* 2k processes, the first k of them the seed members every process has
\* force_joined.
InitSplit == \E k \in 1..(NActors \div 2) : InitWith(1..(2 * k), 1..k)

NextSplit ==
    \/ ProposeJoins
    \/ \E source \in procs : DeliverFromSource(source)
    \/ EnqueueAntiEntropy

SpecSplit == InitSplit /\ [][NextSplit]_vars

\* test_onboarding_across_many_generations: three processes that have all
\* force_joined the genesis process 1.  Process 1 proposes Join(2) and the
\* packets of process 1 are delivered until the join is committed; process
\* 1 then answers process 2's generation 0 with anti-entropy (the test
\* does; the step without it is kept as well) and proposes Join(3) at once;
\* the queues are drained and anti-entropy between all
\* pairs is repeated until it produces no packet.
ProposeFirstJoin ==
    /\ nOperations = 0
    /\ \E r \in {request_membership(State(1), 2)} :
        /\ r.res = "Ok"
        /\ Install(1, r.st)
        /\ queue' = r.out
    /\ nOperations' = 1
    /\ UNCHANGED <<procs, overflow_checks, net>>

OnboardAndProposeSecondJoin ==
    /\ nOperations = 1
    /\ queue = <<>>
    /\ \E r \in {request_membership(State(1), 3)}, onboard \in BOOLEAN :
        /\ r.res = "Ok"
        /\ Install(1, r.st)
        /\ queue' = (IF onboard
                        THEN send_votes(State(1), anti_entropy_votes(State(1), 0, 2))
                        ELSE <<>>) \o r.out
    /\ nOperations' = 2
    /\ UNCHANGED <<procs, overflow_checks, net>>

RepeatAntiEntropy ==
    /\ nOperations = 2
    /\ queue = <<>>
    /\ all_pairs_anti_entropy # <<>>
    /\ queue' = all_pairs_anti_entropy
    /\ UNCHANGED <<procs, overflow_checks, procVars, net, nOperations>>

\* The loop of the test has ended: nothing is queued and anti-entropy
\* between all pairs produces nothing.
Quiescent ==
    /\ procs # {}
    /\ nOperations = 2
    /\ queue = <<>>
    /\ all_pairs_anti_entropy = <<>>

InitOnboarding == InitWith({1, 2, 3}, {1})

NextOnboarding ==
    \/ ProposeFirstJoin
    \/ \E source \in procs : DeliverFromSource(source)
    \/ OnboardAndProposeSecondJoin
    \/ RepeatAntiEntropy

SpecOnboarding == InitOnboarding /\ [][NextOnboarding]_vars

\* prop_interpreter: n processes that have all force_joined the genesis
\* process 1 interpret a list of instructions, one per step; nOperations
\* counts the instructions consumed.  An instruction that is rejected, or
\* finds nothing to deliver, is consumed all the same.
RequestJoin(p, q) ==
    /\ nOperations < MaxInstructions
    /\ \E r \in {request_membership(State(q), p)} :
        /\ r.res # "Panic"
        /\ Install(q, r.st)
        /\ queue' = queue \o (IF r.res = "Ok" THEN r.out ELSE <<>>)
    /\ nOperations' = nOperations + 1
    /\ UNCHANGED <<procs, overflow_checks, net>>

RequestLeave(p, q) ==
    /\ nOperations < MaxInstructions
    /\ \E r \in {kill_peer(State(q), p)} :
        /\ r.res # "Panic"
        /\ Install(q, r.st)
        /\ queue' = queue \o (IF r.res = "Ok" THEN r.out ELSE <<>>)
    /\ nOperations' = nOperations + 1
    /\ UNCHANGED <<procs, overflow_checks, net>>

DeliverPacketFromSource(source) ==
    /\ nOperations < MaxInstructions
    /\ \E i \in 1..Len(queue) :
        /\ queue[i].source = source
        /\ \A j \in 1..(i - 1) : queue[j].source # source
        /\ queue[i].dest \in procs
        /\ \E r \in {handle_packet(State(queue[i].dest), queue[i])} :
            /\ r.res # "Panic"
            /\ Install(queue[i].dest, r.st)
            /\ queue' = SubSeq(queue, 1, i - 1) \o SubSeq(queue, i + 1, Len(queue))
                            \o (IF r.res = "Ok" THEN r.out ELSE <<>>)
    /\ nOperations' = nOperations + 1
    /\ UNCHANGED <<procs, overflow_checks, net>>

InstructionAntiEntropy(g, p, q) ==
    /\ nOperations < MaxInstructions
    /\ queue' = queue \o send_votes(State(p), anti_entropy_votes(State(p), g, q))
    /\ nOperations' = nOperations + 1
    /\ UNCHANGED <<procs, overflow_checks, procVars, net>>

\* Net::drain_queued_packets, one packet at a time: the source with the
\* smallest actor among the queued packets delivers its first packet.
DrainQueuedPackets ==
    /\ nOperations = MaxInstructions
    /\ queue # <<>>
    /\ DeliverFromSource(SetMin({queue[i].source : i \in 1..Len(queue)}))

\* The loop after the instructions: anti-entropy between all pairs once
\* the queues are empty, until it produces nothing.
DrainAntiEntropy ==
    /\ nOperations = MaxInstructions
    /\ queue = <<>>
    /\ all_pairs_anti_entropy # <<>>
    /\ queue' = all_pairs_anti_entropy
    /\ UNCHANGED <<procs, overflow_checks, procVars, net, nOperations>>

\* The loop has ended.
Drained ==
    /\ procs # {}
    /\ nOperations = MaxInstructions
    /\ queue = <<>>
    /\ all_pairs_anti_entropy = <<>>

InitInterpreter == \E n \in 1..NActors : InitWith(1..n, {1})

NextInterpreter ==
    \/ \E p \in procs, q \in procs : RequestJoin(p, q)
    \/ \E p \in procs, q \in procs : RequestLeave(p, q)
    \/ \E source \in procs : DeliverPacketFromSource(source)
    \/ \E g \in 0..MaxForgedGen, p \in procs, q \in procs : InstructionAntiEntropy(g, p, q)
    \/ DrainQueuedPackets
    \/ DrainAntiEntropy

SpecInterpreter == InitInterpreter /\ [][NextInterpreter]_vars

\* prop_validate_reconfig and the rejection tests: one process that has
\* force_joined the actors 1..m (itself among them when m > 0) proposes
\* reconfigurations of the actors 1..MaxTrusted + 1; the actors after
\* NActors run no process.
Candidates == 1..(MaxTrusted + 1)

ProposeReconfig(p, reconfig) ==
    /\ nOperations < MaxOperations
    /\ \E r \in {propose(State(p), reconfig)} :
        /\ r.res # "Panic"
        /\ Install(p, r.st)
        /\ queue' = queue \o send_votes(r.st, r.out)
    /\ nOperations' = nOperations + 1
    /\ UNCHANGED <<procs, overflow_checks, net>>

InitReconfig == \E m \in 0..MaxTrusted : InitWith({1}, 1..m)

NextReconfig ==
    \/ \E p \in procs, a \in Candidates : ProposeReconfig(p, Join(a))
    \/ \E p \in procs, a \in Candidates : ProposeReconfig(p, Leave(a))
    \/ \E source \in procs : DeliverFromSource(source)

SpecReconfig == InitReconfig /\ [][NextReconfig]_vars

\* ------------------------------------------- forced reconfigurations
\* force_join(peer) and force_leave(peer) at process p, at whatever
\* generation p is.
ForceJoin(p, peer) ==
    /\ nOperations < MaxOperations
    /\ Install(p, force_join(State(p), peer))
    /\ nOperations' = nOperations + 1
    /\ UNCHANGED <<procs, overflow_checks, net, queue>>

ForceLeave(p, peer) ==
    /\ nOperations < MaxOperations
    /\ Install(p, force_leave(State(p), peer))
    /\ nOperations' = nOperations + 1
    /\ UNCHANGED <<procs, overflow_checks, net, queue>>

\* Three members; members leave by vote, and any process may force a join
\* or a leave between the rounds.
NextForced ==
    \/ \E p \in procs, peer \in Actors : ForceJoin(p, peer)
    \/ \E p \in procs, peer \in Actors : ForceLeave(p, peer)
    \/ \E p \in procs : KillPeerToCompletion(p)

SpecForced == InitWith({1, 2, 3}, {1, 2, 3}) /\ [][NextForced]_vars

\* ------------------------------------------- concurrent proposals
\* Net::packets maps each source to its queue.  Here `queue` holds the
\* queues one after the other, by source: Net::enqueue_packets appends the
\* packets, all of one source, to the queue of that source.
enqueue_packets(packets_queued, packets) ==
    IF packets = <<>> THEN packets_queued
    ELSE SelectSeq(packets_queued, LAMBDA pk : pk.source <= packets[1].source)
            \o packets
            \o SelectSeq(packets_queued, LAMBDA pk : pk.source > packets[1].source)

\* Every process is a member of generation 0 (each has force_joined all, as
\* in test_round_robin_split_vote).  Member 1 proposes that the last member
\* leaves and the last member proposes that the one before it leaves; the
\* proposals are enqueued before any packet is delivered.
ProposeLeave(p, actor) ==
    /\ nOperations < MaxOperations
    /\ \E r \in {kill_peer(State(p), actor)} :
        /\ r.res = "Ok"
        /\ Install(p, r.st)
        /\ queue' = enqueue_packets(queue, r.out)
    /\ nOperations' = nOperations + 1
    /\ UNCHANGED <<procs, overflow_checks, net>>

\* Net::deliver_packet_from_source on the queues kept by source: the first
\* packet of `source` is handled and the votes returned are enqueued.
DeliverNext(source) ==
    /\ nOperations >= MaxOperations
    /\ nOperations < MaxOperations + MaxDeliveries
    /\ \E i \in 1..Len(queue) :
        /\ queue[i].source = source
        /\ \A j \in 1..(i - 1) : queue[j].source # source
        /\ queue[i].dest \in procs
        /\ \E r \in {handle_packet(State(queue[i].dest), queue[i])} :
            /\ Install(queue[i].dest, r.st)
            /\ queue' = enqueue_packets(
                            SubSeq(queue, 1, i - 1) \o SubSeq(queue, i + 1, Len(queue)),
                            IF r.res = "Ok" THEN r.out ELSE <<>>)
            /\ procs' = IF r.res = "Panic" THEN {} ELSE procs
    /\ nOperations' = nOperations + 1
    /\ UNCHANGED <<overflow_checks, net>>

InitVoting == InitWith(Actors, Actors) /\ overflow_checks

NextVoting ==
    \/ ProposeLeave(1, NActors)
    \/ ProposeLeave(NActors, NActors - 1)
    \/ \E source \in procs : DeliverNext(source)

SpecVoting == InitVoting /\ [][NextVoting]_vars

\* ------------------------------------------- concurrent joins
\* Every process is a member of generation 0.  Each member may request
\* membership for an actor of its own that no process runs, as long as no
\* process has handled the vote of another; the packets are delivered first
\* in, first out.
NextCapacity ==
    \/ \E q \in procs :
           /\ \A p \in procs : DOMAIN votes[p] \subseteq {p}
           /\ RequestJoin(NActors + q, q)
    \/ DeliverPacket

SpecCapacity == InitVoting /\ [][NextCapacity]_vars

\* ----------------------------------------------------- a Byzantine actor
\* An actor that no process of the harness runs is under the adversary's
\* control.  It holds its own signing key only, reads every packet of the
\* transport and sends whatever it can sign.

\* The signatures over msg that have been on the transport.
KnownSignatures(msg) ==
    {packet.payload.op.sig : packet \in
        {pk \in net : /\ pk.payload.tag = "BRB"
                      /\ pk.payload.op.tag = "SignedValidated"
                      /\ pk.payload.op.msg = msg}}

\* The best proof actor b can put together for msg: the signatures it has
\* seen and its own.
ForgedProof(b, msg) ==
    LET sigs == KnownSignatures(msg) \cup {sign(b, msg)}
    IN  [a \in {sig.signer : sig \in sigs} |-> sign(a, msg)]

ForgedOps(b, dest) ==
    LET own == {Msg(g, op, Dot(b, 1)) : g \in 0..MaxForgedGen, op \in Ops}
        theirs == {Msg(g, op, Dot(dest, 1)) : g \in 0..MaxForgedGen, op \in Ops}
    IN  {RequestValidation(m) : m \in own}
            \cup {SignedValidated(m, sign(b, m)) : m \in theirs}
            \cup {ProofOfAgreement(m, ForgedProof(b, m)) : m \in own}

\* Actor b sends process dest a BRB packet of its own making, signed with
\* its own key.
Forge(b, dest, op) ==
    /\ nOperations < MaxOperations
    /\ op \in ForgedOps(b, dest)
    /\ net' = net \cup {[source |-> b, dest |-> dest, payload |-> BRB(op),
                         sig |-> sign(b, BRB(op))]}
    /\ nOperations' = nOperations + 1
    /\ UNCHANGED <<procs, overflow_checks, procVars, queue>>

\* Four members, one of them Byzantine.
InitByzantine == InitWith({1, 2, 3}, {1, 2, 3, 4}) /\ overflow_checks

NextByzantine ==
    \/ \E p \in procs, op \in Ops : ExecOp(p, op)
    \/ \E b \in Actors \ procs, dest \in procs :
           \E op \in ForgedOps(b, dest) : Forge(b, dest, op)
    \/ \E packet \in net : HandlePacket(packet)

SpecByzantine == InitByzantine /\ [][NextByzantine]_vars

\* Three members; actor NActors is no member and Byzantine.
InitOutsider == InitWith({1, 2, 3}, {1, 2, 3}) /\ overflow_checks

SpecOutsider == InitOutsider /\ [][NextByzantine]_vars

\* ---------------------------------------------------- a Byzantine voter
\* Actor NActors, which no process runs, sends membership votes of its own
\* making:
\* proposals it has signed for the coming generations, the same with a
\* signature made for another generation, and a Merge of two proposals of
\* its own.  It is a member of generation 0 in one initial state and a
\* stranger in the other.
ProposedReconfigs == {Join(3), Leave(1)}

ForgedVotes(b) ==
    LET own == {build_vote([id |-> b], g, Propose(r)) :
                    g \in 1..(MaxForgedGen + 1), r \in ProposedReconfigs}
        resigned == {[v EXCEPT !.gen = v.gen + 1] : v \in own}
        merged == {build_vote([id |-> b], 1, Merge({v \in own : v.gen = 1}))}
    IN  own \cup resigned \cup merged

ForgeVote(b, dest, vote) ==
    /\ nOperations < MaxOperations
    /\ queue' = Append(queue, send([id |-> b], dest, Membership(vote)))
    /\ nOperations' = nOperations + 1
    /\ UNCHANGED <<procs, overflow_checks, procVars, net>>

InitByzantineVoter ==
    \/ InitWith({1, 2}, {1, 2})
    \/ InitWith({1, 2}, {1, 2, NActors})

NextByzantineVoter ==
    \/ \E p \in procs, reconfig \in ProposedReconfigs : ProposeReconfig(p, reconfig)
    \/ \E dest \in procs :
           \E vote \in ForgedVotes(NActors) : ForgeVote(NActors, dest, vote)
    \/ \E source \in Actors : DeliverFromSource(source)

SpecByzantineVoter == InitByzantineVoter /\ [][NextByzantineVoter]_vars

\* The votes of the queued packets.
VotesInFlight ==
    {queue[i].payload.vote :
        i \in {j \in 1..Len(queue) : queue[j].payload.tag = "Membership"}}

\* A member that no process runs reads the queued votes and sends process
\* dest a vote of its own for generation 1: a Merge of the votes with a
\* SuperMajority ballot that are queued.
ForgeMerge(b, dest) ==
    LET seen == {v \in VotesInFlight : is_super_majority_ballot(v)}
    IN  /\ seen # {}
        /\ ForgeVote(b, dest, build_vote([id |-> b], 1, Merge(seen)))

\* Members 1, 2, 3 and the Byzantine actor NActors + 1; process NActors is
\* no member and is proposed to join.
InitMerged == InitWith(Actors, {1, 2, 3, NActors + 1}) /\ overflow_checks

NextMerged ==
    \/ ProposeReconfig(1, Join(NActors))
    \/ ForgeMerge(NActors + 1, NActors)
    \/ \E source \in 1..(NActors + 1) : DeliverFromSource(source)

SpecMerged == InitMerged /\ [][NextMerged]_vars

\* ------------------------------------------------------------ properties

\* C2 (P3): at every process, for every source a, the dot counters stored in
\* history_from_source[a] are 1, 2, 3, ... in list order: the i-th entry
\* carries counter i and source a.
C2_PerSourceOrder ==
    \A p \in procs : \A a \in Actors :
        \A i \in 1..Len(history_from_source[p][a]) :
            history_from_source[p][a][i].msg.dot = Dot(a, i)

\* Some process has stored two entries of one source.
C2_Witness ==
    \E p \in procs : \E a \in Actors : Len(history_from_source[p][a]) >= 2

\* C3 (P1): delivered <= received pointwise in every state of every
\* process, and no entry of either clock decreases in any step.
C3_ClockMonotonicity ==
    /\ [](\A p \in procs : \A a \in Actors : delivered[p][a] <= received[p][a])
    /\ [][\A p \in procs : \A a \in Actors :
            /\ received[p][a] <= received'[p][a]
            /\ delivered[p][a] <= delivered'[p][a]]_vars

\* A process has delivered a dot it had not received before the proof came
\* (it took no part in the validation), and its clocks agree on it.
C3_Witness ==
    \E p \in procs : \E a \in Actors :
        /\ delivered[p][a] >= 1
        /\ received[p][a] = delivered[p][a]
        /\ \A packet \in net :
               (packet.payload.tag = "BRB" /\ packet.payload.op.tag = "SignedValidated")
                   => packet.source # p

\* C4 (P4): every stored (msg, proof) has signers inside members(msg.gen),
\* more than two thirds of members(msg.gen) of them, and every signature
\* verifies over msg for its signer.
C4_ProofValidity ==
    \A p \in procs : \A a \in Actors :
        \A i \in 1..Len(history_from_source[p][a]) :
            LET e == history_from_source[p][a][i]
                m == members(State(p), e.msg.gen)
            IN  /\ m.ok
                /\ DOMAIN e.proof \subseteq m.val
                /\ 3 * Cardinality(DOMAIN e.proof) > 2 * Cardinality(m.val)
                /\ \A signer \in DOMAIN e.proof :
                       verify(e.msg, signer, e.proof[signer])

\* A process has stored a proof that two members signed.
C4_Witness ==
    \E p \in procs : \E a \in Actors :
        /\ Len(history_from_source[p][a]) >= 1
        /\ Cardinality(DOMAIN history_from_source[p][a][1].proof) >= 2

\* C9 (L1): once a process has stored a ProofOfAgreement, handling the same
\* proof again, from any sender, is rejected with
\* MsgDotNotNextDotToBeDelivered and leaves the state as it was; the data
\* type has been applied once per stored entry.
C9_DuplicateProofRejected ==
    \A p \in procs :
        /\ \A a \in Actors : \A i \in 1..Len(history_from_source[p][a]) :
             \A from \in Actors :
               LET e == history_from_source[p][a][i]
                   r == handle_packet(State(p),
                            send(State(from), p, BRB(ProofOfAgreement(e.msg, e.proof))))
               IN  /\ r.res = "MsgDotNotNextDotToBeDelivered"
                   /\ r.st = State(p)
                   /\ r.out = <<>>
        /\ Len(dt[p]) =
             Cardinality({ai \in Actors \X (1..Len(dt[p])) :
                             ai[2] <= Len(history_from_source[p][ai[1]])})

\* A process has stored a proof and the transport still holds the packet
\* that carried it, so the transport can deliver it again.
C9_Witness ==
    \E packet \in net :
        /\ packet.dest \in procs
        /\ packet.payload.tag = "BRB"
        /\ packet.payload.op.tag = "ProofOfAgreement"
        /\ \E i \in 1..Len(history_from_source[packet.dest][packet.payload.op.msg.dot.actor]) :
               history_from_source[packet.dest][packet.payload.op.msg.dot.actor][i] =
                   [msg |-> packet.payload.op.msg, proof |-> packet.payload.op.proof]

\* C5 (P5): two processes at the same generation g compute the same
\* members(g).
C5_MembershipAgreement ==
    \A p \in procs : \A q \in procs :
        gen[p] = gen[q] => members(State(p), gen[p]) = members(State(q), gen[q])

\* A seed member and a process that was no seed member have both reached
\* generation 1: the votes were delivered and anti-entropy onboarded the
\* other.
C5_Witness ==
    \E p \in procs : \E q \in procs :
        /\ gen[p] = 1 /\ gen[q] = 1
        /\ p \in members(State(p), 0).val
        /\ q \notin members(State(q), 0).val

\* The voters of the votes packed in a vote.
Voters(vote) == {v.voter : v \in unpack_votes(vote)}

C7_GenerationMonotonicity ==
    /\ [](\A p \in procs :
            /\ gen[p] <= pending_gen[p]
            /\ (DOMAIN votes[p] = {} => pending_gen[p] = gen[p]))
    /\ [][\A p \in procs : gen[p] <= gen'[p]]_vars

\* One process has committed a generation and cleared its votes while
\* another has a vote in progress.
C7_Witness ==
    \E p \in procs : \E q \in procs :
        /\ gen[p] >= 1 /\ DOMAIN votes[p] = {}
        /\ pending_gen[q] > gen[q] /\ DOMAIN votes[q] # {}

\* Requester p and responder q are at steady state.
SteadyState(p, q) ==
    /\ gen[p] = gen[q]
    /\ delivered[p] = delivered[q]
    /\ DOMAIN votes[p] = {} /\ DOMAIN votes[q] = {}

\* C10 (L2): at steady state, anti_entropy(peer) followed by handling the
\* request at the peer and every packet that comes back leaves every
\* process as it was, so repeating the exchange changes nothing either.
C10_AntiEntropyIdempotent ==
    \A p \in procs : \A q \in procs :
        SteadyState(p, q) =>
            run_packets_to_completion(procs, World, <<anti_entropy(State(p), q)>>)
                = [running |-> procs, world |-> World]

\* Two processes at steady state have delivered an operation and the
\* anti-entropy request of this very state is on the transport.
C10_Witness ==
    \E p \in procs : \E q \in procs \ {p} :
        /\ SteadyState(p, q)
        /\ delivered[p] # NewClock
        /\ anti_entropy(State(p), q) \in net

\* C1: if two processes have both stored (delivered) a message with the
\* same dot then they stored the same message.
C1_Agreement ==
    \A p \in procs : \A q \in procs : \A a \in Actors :
        \A i \in 1..Len(history_from_source[p][a]) :
            \A j \in 1..Len(history_from_source[q][a]) :
                history_from_source[p][a][i].msg.dot = history_from_source[q][a][j].msg.dot
                    => history_from_source[p][a][i].msg = history_from_source[q][a][j].msg

\* C8: handle_packet is all-or-nothing: whichever packet of the transport a
\* process handles next, if handle_packet returns an error its state is what
\* it was before the call.
C8_AllOrNothing ==
    \A packet \in net :
        packet.dest \in procs =>
            LET r == handle_packet(State(packet.dest), packet)
            IN  r.res \notin {"Ok", "Panic"} => r.st = State(packet.dest)

\* C11: while process p has validated a message of source a that it has not
\* delivered yet (received[a] = delivered[a] + 1), a RequestValidation of a
\* for the dot after it is rejected with SourceAlreadyHasPendingMsg, changes
\* nothing and returns no packet; and no signature that p has sent is for a
\* dot of a beyond the next one p is to deliver.
C11_PerSourceSerialization ==
    \A p \in procs : \A a \in Actors :
        /\ received[p][a] = delivered[p][a] + 1 =>
              \A op \in Ops : \A g \in 0..(gen[p] + 1) :
                  LET msg == Msg(g, op, Dot(a, received[p][a] + 1))
                      r == handle_packet(State(p),
                               send(State(a), p, BRB(RequestValidation(msg))))
                  IN  /\ r.res = "SourceAlreadyHasPendingMsg"
                      /\ r.st = State(p)
                      /\ r.out = <<>>
        /\ \A packet \in net :
               (/\ packet.source = p
                /\ packet.payload.tag = "BRB"
                /\ packet.payload.op.tag = "SignedValidated"
                /\ packet.payload.op.msg.dot.actor = a)
                   => packet.payload.op.msg.dot.counter <= delivered[p][a] + 1

\* Source a has issued a second message while another process still holds
\* its first one pending, and the second request is on the transport.
C11_Witness ==
    \E packet \in net :
        /\ packet.dest \in procs \ {packet.source}
        /\ packet.payload.tag = "BRB"
        /\ packet.payload.op.tag = "RequestValidation"
        /\ received[packet.dest][packet.source] = delivered[packet.dest][packet.source] + 1
        /\ packet.payload.op.msg.dot =
               Dot(packet.source, received[packet.dest][packet.source] + 1)

\* C12: a ProofOfAgreement formed at generation g and sent by a process is
\* accepted by a destination whose generation has advanced past g, when its
\* dot is the next one to deliver there: handle_packet returns Ok, the entry
\* is stored, the op is applied and the generation stays.
C12_ProofAcceptedAfterMemberChange ==
    \A packet \in net :
        (/\ packet.dest \in procs
         /\ packet.source \in procs
         /\ packet.payload.tag = "BRB"
         /\ packet.payload.op.tag = "ProofOfAgreement"
         /\ packet.payload.op.msg.gen < gen[packet.dest]
         /\ packet.payload.op.msg.dot =
                inc(delivered[packet.dest], packet.payload.op.msg.dot.actor))
            => LET msg == packet.payload.op.msg
                   r == handle_packet(State(packet.dest), packet)
               IN  /\ r.res = "Ok"
                   /\ r.st.dt = Append(dt[packet.dest], msg.op)
                   /\ r.st.history_from_source[msg.dot.actor] =
                          Append(history_from_source[packet.dest][msg.dot.actor],
                                 [msg |-> msg, proof |-> packet.payload.op.proof])
                   /\ r.st.delivered[msg.dot.actor] = msg.dot.counter
                   /\ r.st.gen = gen[packet.dest]

\* The source of an operation holds its own undelivered proof of generation
\* 0 after a member has left and the source has reached generation 1.
C12_Witness ==
    \E packet \in net :
        /\ packet.dest \in procs
        /\ packet.source = packet.dest
        /\ packet.payload.tag = "BRB"
        /\ packet.payload.op.tag = "ProofOfAgreement"
        /\ packet.payload.op.msg.dot.actor = packet.dest
        /\ packet.payload.op.msg.gen = 0
        /\ gen[packet.dest] = 1
        /\ members(State(packet.dest), 1).val # members(State(packet.dest), 0).val
        /\ delivered[packet.dest][packet.dest] = 0

\* C13: on a reliable network with a fixed member set, where every exec_op
\* is run to completion before the next, each step applies the proposed op
\* at every member and stores it under its source, and in every state all
\* members hold the same history_from_source, with one entry and one applied
\* op per operation proposed so far.
C13_ReliableDelivery ==
    /\ [](\A p \in procs :
            /\ \A q \in procs : history_from_source[p] = history_from_source[q]
            /\ Len(dt[p]) = nOperations
            /\ \A a \in Actors : delivered[p][a] = Len(history_from_source[p][a])
            /\ \A a \in Actors : received[p][a] = delivered[p][a]
            /\ DOMAIN pending_proof[p] = {})
    /\ [][\E a \in procs, op \in Ops :
            \A p \in procs :
                /\ dt'[p] = Append(dt[p], op)
                /\ Len(history_from_source'[p][a]) = Len(history_from_source[p][a]) + 1
                /\ history_from_source'[p][a][Len(history_from_source'[p][a])].msg =
                       Msg(gen[a], op, Dot(a, delivered[a][a] + 1))]_vars

\* Four members have each applied two operations of two different sources.
C13_Witness ==
    /\ procs = Actors
    /\ \A p \in procs : Len(dt[p]) = 2
    /\ \E a \in procs : \E b \in procs \ {a} :
           Len(history_from_source[1][a]) = 1 /\ Len(history_from_source[1][b]) = 1

\* C14: when each of the k seed members has proposed Join of a distinct
\* non-member, all packets have been delivered (each source's packets in
\* order, the sources in any order) and the packets of all-pairs
\* anti-entropy have been delivered too, every seed process is at the same
\* generation with the same member set, that set is strictly larger than
\* the seed set, and every process in it computes it at its own generation.
C14_SplitVoteResolution ==
    (nOperations = 2 /\ queue = <<>>) =>
        LET seeds == members(State(1), 0).val
            expected == members(State(1), gen[1])
        IN  /\ expected.ok
            /\ seeds \subseteq expected.val /\ seeds # expected.val
            /\ \A i \in seeds :
                   /\ i \in procs
                   /\ gen[i] = gen[1]
                   /\ members(State(i), gen[i]) = expected
            /\ \A m \in expected.val :
                   /\ m \in procs
                   /\ members(State(m), gen[m]) = expected

\* Two seed members proposed different joins, a Merge vote was cast on the
\* way, and everything has been delivered.
C14_Witness ==
    /\ nOperations = 2 /\ queue = <<>>
    /\ Cardinality(members(State(1), 0).val) = 2
    /\ \E p \in procs : \E g \in DOMAIN history[p] :
           \E v \in unpack_votes(history[p][g]) : v.ballot.tag = "Merge"

\* C15 (onboarding across generations): genesis process 1 commits Join(2)
\* and proposes Join(3) before process 2 has handled any vote; once the
\* queues are drained and anti-entropy between all pairs produces no
\* packet, every process at the highest generation reached computes
\* members(gen) equal to the set of processes at that generation, which is
\* {1, 2, 3}.
C15_OnboardingAcrossGenerations ==
    Quiescent =>
        LET max_gen == SetMax({gen[p] : p \in procs})
            current_members == {p \in procs : gen[p] = max_gen}
        IN  /\ current_members = {1, 2, 3}
            /\ \A p \in current_members :
                    /\ members(State(p), gen[p]).ok
                    /\ members(State(p), gen[p]).val = current_members

\* The loop has ended with process 3 a member at generation 2.
C15_Witness ==
    /\ Quiescent
    /\ gen[3] = 2
    /\ 3 \in members(State(3), 2).val

C17_ReconfigLegality ==
    \A p \in procs : \A a \in Candidates :
        LET s == State(p)
            m == members(s, s.gen).val
            join == validate_ballot(s, s.gen + 1, Propose(Join(a)))
            leave == validate_ballot(s, s.gen + 1, Propose(Leave(a)))
        IN  /\ join = IF a \in m THEN "JoinRequestForExistingMember"
                      ELSE IF Cardinality(m) >= 7 THEN "MembersAtCapacity"
                      ELSE "Ok"
            /\ leave = IF a \notin m THEN "LeaveRequestForNonMember" ELSE "Ok"
            /\ \A reconfig \in {Join(a), Leave(a)} :
                    \E r \in {propose(s, reconfig)} :
                        /\ r.res # "Ok" => r.st = s /\ r.out = <<>>
                        /\ (p \in m /\ DOMAIN s.votes = {})
                              => r.res = validate_ballot(s, s.gen + 1, Propose(reconfig))

\* A process with seven members or more has had a leave accepted, and a
\* join would be rejected for capacity.
C17_Witness ==
    \E p \in procs :
        /\ Cardinality(members(State(p), gen[p]).val) >= 7
        /\ p \in DOMAIN votes[p]
        /\ votes[p][p].ballot.tag = "Propose"
        /\ votes[p][p].ballot.reconfig.kind = "Leave"
        /\ validate_reconfig(State(p), Join(MaxTrusted + 1)) = "MembersAtCapacity"

\* C18 as stated: handle_vote rejects every vote whose gen differs from
\* self.gen + 1 with VoteNotForNextGeneration and leaves the state
\* unchanged (over the queued votes, each at the process it is sent to).
C18_AsStated ==
    \A i \in 1..Len(queue) :
        (/\ queue[i].dest \in procs
         /\ queue[i].payload.tag = "Membership"
         /\ queue[i].payload.vote.gen # gen[queue[i].dest] + 1) =>
            handle_vote(State(queue[i].dest), queue[i].payload.vote) =
                [res |-> "VoteNotForNextGeneration",
                 st |-> State(queue[i].dest), out |-> <<>>]

\* C18, amended: handle_vote rejects every vote whose gen differs from
\* self.gen + 1, returns no vote and leaves the state unchanged; the error
\* is VoteNotForNextGeneration when the signature of the vote is valid and
\* InvalidSignature when it is not (the signature is checked first).  A
\* vote for generation g that arrives after the receiver has committed g
\* is among them.
C18_VoteNotForNextGeneration ==
    \A p \in procs : \A vote \in VotesInFlight \cup ForgedVotes(NActors) :
        vote.gen # gen[p] + 1 =>
            handle_vote(State(p), vote) =
                [res |-> IF verify_vote(vote) THEN "VoteNotForNextGeneration"
                         ELSE "InvalidSignature",
                 st |-> State(p), out |-> <<>>]

\* A validly signed vote for generation g is queued for a process that
\* has committed g.
C18_Witness ==
    \E i \in 1..Len(queue) :
        /\ queue[i].dest \in procs
        /\ queue[i].payload.tag = "Membership"
        /\ verify_vote(queue[i].payload.vote)
        /\ gen[queue[i].dest] >= 1
        /\ queue[i].payload.vote.gen = gen[queue[i].dest]

\* C19 as stated: a vote whose voter is not in members(self.gen) of the
\* receiver is rejected with VoteFromNonMember, and request_membership and
\* kill_peer on a process that is not a member of its own generation fail
\* with VoteFromNonMember; no state changes and nothing is emitted (over
\* the queued votes, each at the process it is sent to).
C19_AsStated ==
    /\ \A i \in 1..Len(queue) :
          (/\ queue[i].dest \in procs
           /\ queue[i].payload.tag = "Membership"
           /\ queue[i].payload.vote.voter
                 \notin members(State(queue[i].dest), gen[queue[i].dest]).val) =>
              handle_vote(State(queue[i].dest), queue[i].payload.vote) =
                  [res |-> "VoteFromNonMember",
                   st |-> State(queue[i].dest), out |-> <<>>]
    /\ \A p \in procs :
          p \notin members(State(p), gen[p]).val =>
              \A a \in Actors :
                  /\ request_membership(State(p), a) =
                        [res |-> "VoteFromNonMember", st |-> State(p), out |-> <<>>]
                  /\ kill_peer(State(p), a) =
                        [res |-> "VoteFromNonMember", st |-> State(p), out |-> <<>>]

\* C19, amended: a vote whose voter is not in members(self.gen) of the
\* receiver is rejected, no state changes and nothing is emitted; the
\* error is VoteFromNonMember when the vote is validly signed and is for
\* generation self.gen + 1, InvalidSignature when the signature is not
\* valid, and VoteNotForNextGeneration when the signature is valid and the
\* generation is another one (the checks run in that order).
\* request_membership and kill_peer on a process that is not a member of
\* its own generation fail with VoteFromNonMember, change no state and emit
\* nothing.
C19_VoteFromNonMember ==
    \A p \in procs :
        /\ \A vote \in VotesInFlight \cup ForgedVotes(NActors) :
              vote.voter \notin members(State(p), gen[p]).val =>
                  handle_vote(State(p), vote) =
                      [res |-> IF ~ verify_vote(vote) THEN "InvalidSignature"
                               ELSE IF vote.gen # gen[p] + 1
                               THEN "VoteNotForNextGeneration"
                               ELSE "VoteFromNonMember",
                       st |-> State(p), out |-> <<>>]
        /\ p \notin members(State(p), gen[p]).val =>
              \A a \in Actors :
                  /\ request_membership(State(p), a) =
                        [res |-> "VoteFromNonMember", st |-> State(p), out |-> <<>>]
                  /\ kill_peer(State(p), a) =
                        [res |-> "VoteFromNonMember", st |-> State(p), out |-> <<>>]

\* A process that has left holds in its queue a validly signed vote for
\* its next generation from an actor that is not a member there.
C19_Witness ==
    \E i \in 1..Len(queue) :
        /\ queue[i].dest \in procs
        /\ queue[i].payload.tag = "Membership"
        /\ verify_vote(queue[i].payload.vote)
        /\ queue[i].payload.vote.gen = gen[queue[i].dest] + 1
        /\ queue[i].payload.vote.voter
              \notin members(State(queue[i].dest), gen[queue[i].dest]).val
        /\ queue[i].dest \notin members(State(queue[i].dest), gen[queue[i].dest]).val

\* C20 (no voter switches reconfig within a round): in every reachable
\* state the (voter, reconfig) pairs extracted from the votes a process
\* holds contain at most one reconfig per voter.
C20_NoVoterSwitchesReconfig ==
    \A p \in procs :
        LET rcs == UNION {reconfigs(v) : v \in Range(votes[p])}
        IN  Cardinality({pr[1] : pr \in rcs}) = Cardinality(rcs)

\* The messages a forged packet may carry: any generation, operation and
\* dot within the bounds, and every message that has been on the transport.
CandidateMsgs ==
    {Msg(g, op, Dot(a, c)) :
        g \in 0..MaxForgedGen, op \in Ops, a \in Actors, c \in 0..MaxOperations}
    \cup {packet.payload.op.msg : packet \in
            {pk \in net : pk.payload.tag = "BRB"}}

\* C21: a correctly signed RequestValidation whose packet source differs
\* from msg.dot.actor is rejected with PacketSourceIsNotDot whatever its dot,
\* generation, operation and the membership of its source are, and the
\* receiver's state is unchanged and nothing is sent.
C21_ForgedDotRejected ==
    \A p \in procs : \E s \in {State(p)} :
        \A msg \in CandidateMsgs : \A from \in Actors \ {msg.dot.actor} :
            \E r \in {handle_packet(s, send(State(from), p, BRB(RequestValidation(msg))))} :
                /\ r.res = "PacketSourceIsNotDot"
                /\ r.st = s
                /\ r.out = <<>>

\* The transport holds a request that its destination would accept from
\* its real source (so under another source the source check alone rejects
\* it), while another process has already received that dot (so there the
\* dot order would reject it as well).
C21_Witness ==
    \E packet \in net :
        /\ packet.dest \in procs
        /\ packet.payload.tag = "BRB"
        /\ packet.payload.op.tag = "RequestValidation"
        /\ validate_packet(State(packet.dest), packet) = "Ok"
        /\ \E q \in procs : received[q][packet.source] >= 1
        /\ \E b \in Actors \ procs :
               validate_packet(State(packet.dest),
                   send(State(b), packet.dest, packet.payload)) = "PacketSourceIsNotDot"

\* The messages that have been on the transport.
SentMsgs ==
    {packet.payload.op.msg : packet \in {pk \in net : pk.payload.tag = "BRB"}}

\* The proofs a packet may carry for msg: any set of signers, each with its
\* signature over msg or with its signature over another message.
CandidateProofs(msg) ==
    UNION {{[a \in signers |->
                IF a \in bad THEN sign(a, [msg EXCEPT !.gen = msg.gen + 1])
                ELSE sign(a, msg)] : bad \in SUBSET signers} :
           signers \in SUBSET Actors}

\* C22: a ProofOfAgreement for a message that has been sent, whose dot is
\* the next to deliver and whose generation the receiver knows, is rejected with NotEnoughSignaturesToFormQuorum if
\* 3 * |proof| <= 2 * |members(msg.gen)|; otherwise with
\* ProofContainsSignaturesFromNonMembers if a signer is outside
\* members(msg.gen); otherwise with ProofContainsInvalidSignatures if a
\* signature does not verify over msg.  The receiver's state (delivered,
\* received, history_from_source, dt and the rest) is unchanged and nothing
\* is sent.
C22_InvalidProofRejected ==
    \A p \in procs : \E s \in {State(p)} :
        \A msg \in SentMsgs : \E m \in {members(s, msg.gen)} :
            (m.ok /\ msg.dot = inc(s.delivered, msg.dot.actor)) =>
                \A proof \in CandidateProofs(msg) :
                    \E r \in {handle_packet(s, send(State(msg.dot.actor), p,
                                      BRB(ProofOfAgreement(msg, proof))))} :
                        LET few == 3 * Cardinality(DOMAIN proof) <= 2 * Cardinality(m.val)
                            outside == ~ (DOMAIN proof \subseteq m.val)
                            invalid == \E signer \in DOMAIN proof :
                                           ~ verify(msg, signer, proof[signer])
                        IN  /\ few => r.res = "NotEnoughSignaturesToFormQuorum"
                            /\ (~ few /\ outside) =>
                                   r.res = "ProofContainsSignaturesFromNonMembers"
                            /\ (~ few /\ ~ outside /\ invalid) =>
                                   r.res = "ProofContainsInvalidSignatures"
                            /\ (few \/ outside \/ invalid) =>
                                   /\ r.st.delivered = s.delivered
                                   /\ r.st.received = s.received
                                   /\ r.st.history_from_source = s.history_from_source
                                   /\ r.st.dt = s.dt
                                   /\ r.st = s
                                   /\ r.out = <<>>

\* An originator holds signatures for its next dot to deliver that are not
\* yet a supermajority of the members of the message's generation, which
\* differ from the members of its current generation; sent as a proof they
\* are rejected for their number.
C22_Witness ==
    \E p \in procs : \E msg \in DOMAIN pending_proof[p] :
        /\ msg.dot = inc(delivered[p], p)
        /\ msg.gen < gen[p]
        /\ members(State(p), msg.gen) # members(State(p), gen[p])
        /\ handle_packet(State(p), send(State(p), p,
                BRB(ProofOfAgreement(msg, pending_proof[p][msg])))).res =
                    "NotEnoughSignaturesToFormQuorum"

\* The ProofOfAgreement packets for msg among the packets of `out`.
ProofPackets(out, msg) ==
    {packet \in out : /\ packet.payload.tag = "BRB"
                      /\ packet.payload.op.tag = "ProofOfAgreement"
                      /\ packet.payload.op.msg = msg}

\* C23: an originator that has broadcast a ProofOfAgreement for msg does not
\* broadcast one again: handling any SignedValidated packet the transport
\* holds for it, a repeated one included, emits no ProofOfAgreement for a
\* msg whose proof the originator has already sent.
C23_ProofBroadcastOnce ==
    \A packet \in net :
        (/\ packet.dest \in procs
         /\ packet.payload.tag = "BRB"
         /\ packet.payload.op.tag = "SignedValidated"
         /\ \E sent \in ProofPackets(net, packet.payload.op.msg) :
                sent.source = packet.dest)
        => ProofPackets(Range(handle_packet(State(packet.dest), packet).out),
                        packet.payload.op.msg) = {}

\* C24 as stated: after the handle_packet call in which the originator
\* emits ProofOfAgreement for msg, pending_proof has no entry for msg.
C24_AsStated ==
    \A packet \in net :
        (/\ packet.dest \in procs
         /\ packet.payload.tag = "BRB"
         /\ packet.payload.op.tag = "SignedValidated")
        => \E r \in {handle_packet(State(packet.dest), packet)} :
               ProofPackets(Range(r.out), packet.payload.op.msg) # {}
                   => packet.payload.op.msg \notin DOMAIN r.st.pending_proof

\* C24: the handle_packet call in which the originator emits
\* ProofOfAgreement for msg leaves pending_proof[msg] in place, holding the
\* proof that was sent; the entry is removed by the handle_packet call that
\* delivers a ProofOfAgreement for msg, and an entry disappears in no other
\* step.
C24_RemovedOnDelivery ==
    /\ [](\A packet \in net :
            (packet.dest \in procs /\ packet.payload.tag = "BRB") =>
                \E r \in {handle_packet(State(packet.dest), packet)} :
                \E msg \in {packet.payload.op.msg} :
                    /\ (/\ packet.payload.op.tag = "SignedValidated"
                        /\ ProofPackets(Range(r.out), msg) # {})
                       => /\ msg \in DOMAIN r.st.pending_proof
                          /\ \A sent \in ProofPackets(Range(r.out), msg) :
                                 sent.payload.op.proof = r.st.pending_proof[msg]
                    /\ (packet.payload.op.tag = "ProofOfAgreement" /\ r.res = "Ok")
                       => msg \notin DOMAIN r.st.pending_proof)
    /\ [][\A p \in procs : \A msg \in DOMAIN pending_proof[p] :
            msg \notin DOMAIN pending_proof'[p] =>
                /\ delivered[p][msg.dot.actor] + 1 = msg.dot.counter
                /\ delivered'[p][msg.dot.actor] = msg.dot.counter]_vars

\* The originator has broadcast the proof for a message and still holds
\* the signatures for it; the proof addressed to itself is on the transport.
C24_Witness ==
    \E p \in procs : \E msg \in DOMAIN pending_proof[p] :
        \E sent \in ProofPackets(net, msg) :
            /\ sent.source = p
            /\ sent.dest = p
            /\ sent.payload.op.proof = pending_proof[p][msg]
            /\ handle_packet(State(p), sent).res = "Ok"

\* The messages process p has asked the members to validate.
RequestedMsgs(p) ==
    {packet.payload.op.msg : packet \in
        {pk \in net : /\ pk.source = p
                      /\ pk.payload.tag = "BRB"
                      /\ pk.payload.op.tag = "RequestValidation"}}

\* C25: the messages a process has produced with exec_op and has not yet
\* received itself (consecutive calls with none of its own requests handled
\* in between) carry distinct dots.
C25_LocalPipelining ==
    \A p \in procs :
        \A m1 \in RequestedMsgs(p) : \A m2 \in RequestedMsgs(p) :
            (/\ m1 # m2
             /\ m1.dot.counter > received[p][p]
             /\ m2.dot.counter > received[p][p])
            => m1.dot # m2.dot

\* The SignedValidated packets among the packets of `out`.
SignedPackets(out) ==
    {packet \in out : /\ packet.payload.tag = "BRB"
                      /\ packet.payload.op.tag = "SignedValidated"}

\* C26: a process signs a RequestValidation only if msg.gen is its current
\* generation and the source is a member of that generation.  A request
\* that fails either condition is rejected, changes nothing and is answered
\* by nothing; when it has passed the checks of source and dot order the
\* error is MessageFromDifferentGeneration for the generation and otherwise
\* SourceIsNotVotingMember.  Hence every SignedValidated a process has sent
\* is for a message of a generation the signer has been in, by a member of
\* that generation, and was sent while the signer was in that generation.
C26_SignsOnlyOwnGeneration ==
    /\ [](\A packet \in net :
            (/\ packet.dest \in procs
             /\ packet.payload.tag = "BRB"
             /\ packet.payload.op.tag = "RequestValidation") =>
            \E s \in {State(packet.dest)} : \E msg \in {packet.payload.op.msg} :
            \E r \in {handle_packet(s, packet)} :
                LET same_gen == msg.gen = s.gen
                    member == packet.source \in members(s, s.gen).val
                    in_order == /\ packet.source = msg.dot.actor
                                /\ msg.dot = inc(s.received, packet.source)
                                /\ msg.dot = inc(s.delivered, packet.source)
                IN  /\ SignedPackets(Range(r.out)) # {} => (same_gen /\ member)
                    /\ r.res = "Ok" =>
                           r.out = <<send(s, packet.source,
                                          BRB(SignedValidated(msg, sign(s.id, msg))))>>
                    /\ ~ (same_gen /\ member) =>
                           /\ r.res # "Ok"
                           /\ r.st = s
                           /\ r.out = <<>>
                    /\ (in_order /\ ~ same_gen) =>
                           r.res = "MessageFromDifferentGeneration"
                    /\ (in_order /\ same_gen /\ ~ member) =>
                           r.res = "SourceIsNotVotingMember")
    /\ [](\A packet \in SignedPackets(net) :
            packet.source \in procs =>
                /\ packet.payload.op.msg.gen <= gen[packet.source]
                /\ packet.payload.op.msg.dot.actor \in
                       members(State(packet.source), packet.payload.op.msg.gen).val)
    /\ [][\A packet \in SignedPackets(net' \ net) :
              packet.payload.op.msg.gen = gen[packet.source]]_vars

\* The transport holds a request of a generation its destination has left
\* and a request of a source that is no member at its destination, each
\* with the next dot of its source.
C26_Witness ==
    /\ \E packet \in net :
           /\ packet.dest \in procs
           /\ handle_packet(State(packet.dest), packet).res = "MessageFromDifferentGeneration"
    /\ \E packet \in net :
           /\ packet.dest \in procs
           /\ handle_packet(State(packet.dest), packet).res = "SourceIsNotVotingMember"

\* The anti-entropy requests process p may be handed: those the transport
\* holds for it, the one each process would send it now, and the one each
\* process would have sent it before anything happened.
AntiEntropyRequests(p) ==
    {packet \in net : packet.dest = p /\ packet.payload.tag = "AntiEntropy"}
        \cup {anti_entropy(State(q), p) : q \in procs}
        \cup {send(State(q), p, AntiEntropy(0, NewClock)) : q \in procs}

\* C27: on AntiEntropy{from_generation, delivered_peer} from S the responder
\* returns packets addressed to S only, the membership votes first and then
\* ProofOfAgreement packets; for each source a the proofs are exactly the
\* stored entries of a with counter > delivered_peer[a], in the order stored
\* (counters increasing); the responder's state is unchanged.
C27_AntiEntropyReply ==
    \A p \in procs : \E s \in {State(p)} :
        \A packet \in AntiEntropyRequests(p) :
            \E r \in {handle_packet(s, packet)} :
                /\ r.res = "Ok"
                /\ r.st = s
                /\ \A i \in 1..Len(r.out) :
                       /\ r.out[i].source = p
                       /\ r.out[i].dest = packet.source
                       /\ r.out[i].payload.tag \in {"Membership", "BRB"}
                       /\ r.out[i].payload.tag = "BRB" =>
                              /\ r.out[i].payload.op.tag = "ProofOfAgreement"
                              /\ \A j \in i..Len(r.out) : r.out[j].payload.tag = "BRB"
                /\ \A a \in Actors :
                       LET sent == SelectSeq(r.out, LAMBDA pk :
                                       /\ pk.payload.tag = "BRB"
                                       /\ pk.payload.op.msg.dot.actor = a)
                           due == SelectSeq(s.history_from_source[a], LAMBDA e :
                                       e.msg.dot.counter > packet.payload.delivered[a])
                       IN  /\ Len(sent) = Len(due)
                           /\ \A i \in 1..Len(sent) :
                                  /\ sent[i].payload.op.msg = due[i].msg
                                  /\ sent[i].payload.op.proof = due[i].proof
                                  /\ sent[i].payload.op.msg.dot.counter >
                                         packet.payload.delivered[a]
                                  /\ i > 1 => sent[i].payload.op.msg.dot.counter >
                                                  sent[i - 1].payload.op.msg.dot.counter

\* A responder has stored two entries of one source and a requester has
\* delivered the first of them only: the reply carries the second alone.
C27_Witness ==
    \E p \in procs : \E q \in procs \ {p} : \E a \in Actors :
        /\ Len(history_from_source[p][a]) = 2
        /\ delivered[q][a] = 1
        /\ Len(handle_packet(State(p), anti_entropy(State(q), p)).out) = 1

\* The queued vote packets the harness can deliver next: for each source the
\* first packet of its queue, if a process runs at its destination.
DeliverableVotes ==
    {queue[i] : i \in {j \in 1..Len(queue) :
        /\ queue[j].payload.tag = "Membership"
        /\ queue[j].dest \in procs
        /\ \A k \in 1..(j - 1) : queue[k].source # queue[j].source}}

\* The largest number of votes of `held` that advocate one set of reconfigs.
MostVotes(held) ==
    IF held = {} THEN 0
    ELSE SetMax({Cardinality({w \in held : reconfig_set(w) = reconfig_set(v)}) :
                 v \in held})

\* C28: when a process has merged a valid incoming vote into the votes it
\* holds and these number more than two thirds of N = |members(gen)| while
\* the largest count for one reconfig set plus the N - |votes| outstanding
\* votes is at most two thirds of N, it returns nothing if its own vote
\* already advocates the reconfigs of all the votes held, and otherwise
\* casts a Merge ballot for pending_gen over the votes held, one packet to
\* every member; this whatever the SM/SM, supermajority and first-vote
\* steps would have done.
C28_SplitVoteStep ==
    \A packet \in DeliverableVotes :
        \E s \in {State(packet.dest)} : \E vote \in {packet.payload.vote} :
        \E r \in {handle_packet(s, packet)} :
            LET logged == log_vote(s.votes, vote)
                held == Range(logged)
                n == Cardinality(members(s, s.gen).val)
                split == /\ 3 * Cardinality(held) > 2 * n
                         /\ 3 * (MostVotes(held) + n - Cardinality(held)) <= 2 * n
                all_reconfigs == UNION {reconfig_set(v) : v \in held}
                dests == SortedSeq(members(s, s.gen).val)
            IN  (/\ validate_packet(s, packet) = "Ok"
                 /\ validate_vote(s, vote) = "Ok"
                 /\ split
                 /\ r.res # "Panic") =>
                    /\ r.res = "Ok"
                    /\ r.st.pending_gen = vote.gen
                    /\ r.st.gen = s.gen
                    /\ IF s.id \in DOMAIN logged
                          /\ reconfig_set(logged[s.id]) = all_reconfigs
                       THEN /\ r.out = <<>>
                            /\ r.st.votes = logged
                       ELSE /\ Len(r.out) = Len(dests)
                            /\ \A i \in 1..Len(dests) :
                                   /\ r.out[i].dest = dests[i]
                                   /\ r.out[i].source = s.id
                                   /\ r.out[i].payload.tag = "Membership"
                                   /\ r.out[i].payload.vote.ballot.tag = "Merge"
                                   /\ r.out[i].payload.vote.voter = s.id
                                   /\ r.out[i].payload.vote.gen = vote.gen
                                   /\ verify_vote(r.out[i].payload.vote)
                                   /\ held \subseteq unpack_votes(r.out[i].payload.vote)
                                   /\ r.st.votes[s.id] = r.out[i].payload.vote

\* The deliverable votes that are valid at their destination and leave it
\* with a split vote.
SplitVotes ==
    {packet \in DeliverableVotes :
        \E s \in {State(packet.dest)} :
            /\ validate_packet(s, packet) = "Ok"
            /\ validate_vote(s, packet.payload.vote) = "Ok"
            /\ \E held \in {Range(log_vote(s.votes, packet.payload.vote))} :
               \E n \in {Cardinality(members(s, s.gen).val)} :
                   /\ 3 * Cardinality(held) > 2 * n
                   /\ 3 * (MostVotes(held) + n - Cardinality(held)) <= 2 * n}

\* A process that has cast a Merge ballot is about to be handed a valid vote
\* that leaves the vote split and adds no reconfig to those its Merge
\* advocates.
C28_Witness ==
    \E packet \in SplitVotes :
        /\ packet.dest \in DOMAIN votes[packet.dest]
        /\ votes[packet.dest][packet.dest].ballot.tag = "Merge"
        /\ \E r \in {handle_packet(State(packet.dest), packet)} :
               r.res = "Ok" /\ r.out = <<>>

\* The deliverable votes that are valid at their destination, a member of
\* its current generation, and leave it holding, with no split vote,
\* SuperMajority ballots for the winning reconfigs from more than two
\* thirds of the members.
DecidingVotes ==
    {packet \in DeliverableVotes \ SplitVotes :
        \E s \in {State(packet.dest)} :
            /\ validate_packet(s, packet) = "Ok"
            /\ validate_vote(s, packet.payload.vote) = "Ok"
            /\ s.id \in members(s, s.gen).val
            /\ \E held \in {Range(log_vote(s.votes, packet.payload.vote))} :
                   3 * Cardinality({v \in held :
                           /\ is_super_majority_ballot(v)
                           /\ reconfig_set(v) = resolve_votes(held)})
                       > 2 * Cardinality(members(s, s.gen).val)}

\* C29: a member handed such a vote stores under pending_gen = gen + 1 a
\* SuperMajority vote of its own, validly signed, that contains every vote
\* it holds, leaves the rest of history alone, clears votes, sets gen to
\* pending_gen and returns no packet.
C29_SuperMajorityCommit ==
    \A packet \in DecidingVotes :
        \E s \in {State(packet.dest)} : \E r \in {handle_packet(s, packet)} :
            r.res # "Panic" =>
                /\ r.res = "Ok"
                /\ r.out = <<>>
                /\ r.st.votes = EmptyMap
                /\ r.st.gen = s.gen + 1
                /\ r.st.pending_gen = r.st.gen
                /\ DOMAIN r.st.history = DOMAIN s.history \cup {s.gen + 1}
                /\ s.gen + 1 \notin DOMAIN s.history
                /\ \A g \in DOMAIN s.history : r.st.history[g] = s.history[g]
                /\ \E h \in {r.st.history[s.gen + 1]} :
                       /\ h.voter = s.id
                       /\ h.gen = s.gen + 1
                       /\ h.ballot.tag = "SuperMajority"
                       /\ verify_vote(h)
                       /\ Range(log_vote(s.votes, packet.payload.vote))
                              \subseteq unpack_votes(h)
                /\ r.st = [s EXCEPT !.votes = r.st.votes, !.gen = r.st.gen,
                                     !.pending_gen = r.st.pending_gen,
                                     !.history = r.st.history]

\* A member of a generation of at least two members is about to be handed
\* the vote that completes the super majority of SuperMajority ballots.
C29_Witness ==
    \E packet \in DecidingVotes :
        /\ Cardinality(members(State(packet.dest), gen[packet.dest]).val) >= 2
        /\ handle_packet(State(packet.dest), packet).res = "Ok"

\* The deliverable votes that are valid at their destination and leave it,
\* with no split vote and no super majority of SuperMajority ballots,
\* holding votes of more than two thirds of the members for one reconfig
\* set.
SuperMajorityVotes ==
    {packet \in DeliverableVotes \ SplitVotes :
        \E s \in {State(packet.dest)} :
            /\ validate_packet(s, packet) = "Ok"
            /\ validate_vote(s, packet.payload.vote) = "Ok"
            /\ \E held \in {Range(log_vote(s.votes, packet.payload.vote))} :
                   /\ ~ 3 * Cardinality({v \in held :
                               /\ is_super_majority_ballot(v)
                               /\ reconfig_set(v) = resolve_votes(held)})
                           > 2 * Cardinality(members(s, s.gen).val)
                   /\ 3 * MostVotes(held) > 2 * Cardinality(members(s, s.gen).val)}

\* The SuperMajority ballots of voter p for generation g inside vote v.
SuperMajorityBallots(v, p, g) ==
    {w \in unpack_votes(v) :
        w.voter = p /\ w.gen = g /\ is_super_majority_ballot(w)}

UndecidedVotes ==
    {packet \in DeliverableVotes \ SplitVotes :
        \E s \in {State(packet.dest)} :
            /\ validate_packet(s, packet) = "Ok"
            /\ validate_vote(s, packet.payload.vote) = "Ok"
            /\ \E held \in {Range(log_vote(s.votes, packet.payload.vote))} :
                   3 * MostVotes(held) <= 2 * Cardinality(members(s, s.gen).val)}

\* C31: a process that handles a valid vote triggering none of the split
\* vote, SM/SM and supermajority steps and that holds no vote of its own
\* sends every member of members(gen) one vote, signed by itself for the
\* pending generation, with the ballot of the incoming vote, and keeps it as
\* its own vote; a process that holds a vote of its own sends nothing.
C31_FirstVoteFallback ==
    \A packet \in UndecidedVotes :
        \E s \in {State(packet.dest)} : \E r \in {handle_packet(s, packet)} :
            LET logged == log_vote(s.votes, packet.payload.vote)
                dests == SortedSeq(members(s, s.gen).val)
            IN  r.res # "Panic" =>
                /\ r.res = "Ok"
                /\ r.st.gen = s.gen
                /\ r.st.pending_gen = packet.payload.vote.gen
                /\ IF s.id \in DOMAIN logged
                   THEN r.out = <<>> /\ r.st.votes = logged
                   ELSE /\ Len(r.out) = Len(dests)
                        /\ \A i \in 1..Len(dests) :
                               /\ r.out[i].dest = dests[i]
                               /\ r.out[i].source = s.id
                               /\ r.out[i].payload.tag = "Membership"
                               /\ r.out[i].payload.vote.ballot = packet.payload.vote.ballot
                               /\ r.out[i].payload.vote.voter = s.id
                               /\ r.out[i].payload.vote.gen = r.st.pending_gen
                               /\ verify_vote(r.out[i].payload.vote)
                               /\ r.st.votes = [v \in DOMAIN logged \union {s.id} |->
                                                  IF v = s.id THEN r.out[i].payload.vote
                                                  ELSE logged[v]]

\* A process with no vote of its own adopts the ballot of an incoming
\* vote, while another process, which has voted, can be handed a vote that
\* decides nothing.
C31_Witness ==
    /\ \E packet \in UndecidedVotes :
        /\ packet.dest \notin DOMAIN votes[packet.dest]
        /\ packet.dest # packet.source
        /\ Cardinality(members(State(packet.dest), gen[packet.dest]).val) >= 3
        /\ handle_packet(State(packet.dest), packet).out # <<>>
    /\ \E packet \in UndecidedVotes :
        /\ packet.dest \in DOMAIN votes[packet.dest]
        /\ packet.dest # packet.source

\* C32: at every process and whatever its generation, the members of the
\* current generation contain peer right after force_join(peer) and do not
\* contain it right after force_leave(peer).
C32_ForcedReconfigTakesEffect ==
    \A p \in procs : \A peer \in Actors :
        \E s \in {State(p)} :
            members(s, s.gen).ok =>
                /\ \E m \in {members(force_join(s, peer), s.gen)} :
                       m.ok /\ peer \in m.val
                /\ \E m \in {members(force_leave(s, peer), s.gen)} :
                       m.ok /\ peer \notin m.val

C34_OneSignaturePerDot ==
    \A signed \in {packet \in SignedPackets(net) : packet.source \in procs} :
        \E p \in {signed.source} : \E msg \in {signed.payload.op.msg} :
            /\ signed.payload.op.sig = sign(p, msg)
            /\ \A other \in SignedPackets(net) :
                   (other.source = p /\ other.payload.op.msg.dot = msg.dot)
                       => other.payload.op.msg = msg
            /\ \E s \in {State(p)} :
                   \A g \in 0..(MaxOperations + 1) : \A op \in Ops :
                       \E r \in {handle_packet(s, send(State(msg.dot.actor), p,
                                     BRB(RequestValidation(Msg(g, op, msg.dot)))))} :
                           /\ r.res \notin {"Ok", "Panic"}
                           /\ r.st = s
                           /\ r.out = <<>>

\* A process has signed a message, and the transport holds a request to it
\* for the same dot with another operation.
C34_Witness ==
    \E signed \in SignedPackets(net) :
        \E msg \in {signed.payload.op.msg} :
            \E packet \in net :
                /\ packet.dest = signed.source
                /\ packet.source = msg.dot.actor
                /\ packet.payload.tag = "BRB"
                /\ packet.payload.op.tag = "RequestValidation"
                /\ packet.payload.op.msg.dot = msg.dot
                /\ packet.payload.op.msg.op # msg.op

\* C35: at every process, every voter recorded in votes is a member of
\* members(gen), so that the votes recorded are no more than the members
\* and N - received in is_split_vote does not underflow.
C35_VotersAreMembers ==
    \A p \in procs :
        \E m \in {members(State(p), gen[p])} :
            m.ok => /\ DOMAIN votes[p] \subseteq m.val
                    /\ Cardinality(DOMAIN votes[p]) <= Cardinality(m.val)

\* C36: once the network has delivered everything (handling any packet
\* sent so far changes nothing and returns nothing new), the
\* RequestValidation that the next exec_op of a member produces carries, at
\* every running member of its generation it is sent to, the next dot of
\* received and of delivered for its source.
C36_NoWedgedSource ==
    (\A packet \in net :
        packet.dest \in procs =>
            \E r \in {handle_packet(State(packet.dest), packet)} :
                /\ r.st = State(packet.dest)
                /\ Range(r.out) \subseteq net)
    => \A p \in procs : \E s \in {State(p)} :
           (members(s, s.gen).ok /\ p \in members(s, s.gen).val) =>
               \E r \in {exec_op(s, 1)} :
                   \A i \in 1..Len(r.out) :
                       \E q \in {r.out[i].dest} : \E msg \in {r.out[i].payload.op.msg} :
                           (/\ q \in procs
                            /\ gen[q] = s.gen) =>
                               /\ msg.dot = inc(received[q], p)
                               /\ msg.dot = inc(delivered[q], p)

\* C37 as stated: at every process, every generation g >= 1 committed
\* through votes has at most SOFT_MAX_MEMBERS members.
C37_AsStated ==
    \A p \in procs : \A g \in 1..gen[p] :
        \E m \in {members(State(p), g)} :
            m.ok => Cardinality(m.val) <= SOFT_MAX_MEMBERS

\* C37: a generation committed through votes has members its predecessor
\* had not only if the predecessor had fewer than SOFT_MAX_MEMBERS members,
\* and then no more new members than the predecessor had members (one Join
\* per voter); and a process at the start of a round whose generation has
\* SOFT_MAX_MEMBERS members or more neither proposes nor accepts the
\* proposal of a Join.
C37_GrowthOnlyBelowCap ==
    \A p \in procs : \E s \in {State(p)} :
        /\ \A g \in 1..s.gen :
               \E prev \in {members(s, g - 1)} : \E cur \in {members(s, g)} :
                   (prev.ok /\ cur.ok) =>
                       /\ ~ (cur.val \subseteq prev.val) =>
                              Cardinality(prev.val) < SOFT_MAX_MEMBERS
                       /\ Cardinality(cur.val \ prev.val) <= Cardinality(prev.val)
        /\ \E m \in {members(s, s.gen)} :
               (/\ m.ok
                /\ Cardinality(m.val) >= SOFT_MAX_MEMBERS
                /\ s.votes = EmptyMap
                /\ s.pending_gen = s.gen) =>
                   \A a \in ((NActors + 1)..(2 * NActors)) \ m.val :
                       /\ request_membership(s, a).res = "MembersAtCapacity"
                       /\ request_membership(s, a).out = <<>>
                       /\ \A q \in m.val \ {p} :
                              \E r \in {handle_vote(s, build_vote([id |-> q], s.gen + 1,
                                                                  Propose(Join(a))))} :
                                  r.res = "MembersAtCapacity" /\ r.out = <<>>

\* A process has committed a generation of exactly SOFT_MAX_MEMBERS members
\* through the merge of three concurrent Joins, and an actor that is no
\* member is left.
C37_Witness ==
    \E p \in procs :
        \E m \in {members(State(p), gen[p])} :
            /\ gen[p] = 1
            /\ m.ok
            /\ Cardinality(m.val) = SOFT_MAX_MEMBERS
            /\ votes[p] = EmptyMap
            /\ pending_gen[p] = 1
            /\ ((NActors + 1)..(2 * NActors)) \ m.val # {}

\* C38: every ProofOfAgreement a process has broadcast contains only
\* signatures of members of members(msg.gen).
C38_ProofSignersAreMembers ==
    \A packet \in net :
        (/\ packet.source \in procs
         /\ packet.payload.tag = "BRB"
         /\ packet.payload.op.tag = "ProofOfAgreement") =>
            \E m \in {members(State(packet.source), packet.payload.op.msg.gen)} :
                m.ok => DOMAIN packet.payload.op.proof \subseteq m.val

\* C39: if two processes have both stored (delivered) a message with the
\* same dot then they stored the same entry for it in history_from_source:
\* the same message with the same proof, signer for signer.
C39_SameMsgAndProof ==
    \A p \in procs : \A q \in procs : \A a \in Actors :
        \A i \in 1..Len(history_from_source[p][a]) :
            \A j \in 1..Len(history_from_source[q][a]) :
                history_from_source[p][a][i].msg.dot = history_from_source[q][a][j].msg.dot
                    => history_from_source[p][a][i] = history_from_source[q][a][j]

\* C40: at every running process members(gen) of its own generation
\* succeeds, and so does peers(): its history has an entry for each of the
\* generations 1..gen and for no other, and every entry is a vote with a
\* SuperMajority ballot.
C40_MembersOfCurrentGeneration ==
    \A p \in procs :
        /\ members(State(p), gen[p]).ok
        /\ peers(State(p)).ok
        /\ DOMAIN history[p] = 1..gen[p]
        /\ \A g \in DOMAIN history[p] : is_super_majority_ballot(history[p][g])

====
